---- MODULE Spec2Model ----
(***************************************************************************)
(* Model of delete-orgs.js: a token-bucket rate limiter, a retrying        *)
(* executor, a paginated fetcher, a date filter, a bounded-concurrency     *)
(* deleter and the orchestrator (main) that sequences them.                *)
(*                                                                         *)
(* Time is in milliseconds (Date.now()).  tokens is kept in thousandths of *)
(* a token, so that tokens + timePassed * refillRate with timePassed in    *)
(* seconds is exact integer arithmetic: tokens >= 1 is tokens >= 1000.     *)
(***************************************************************************)
EXTENDS Integers, Sequences, FiniteSets, TLC

\* ------------------------------------------------------------------ bounds
MaxRate == 2
MaxClients == 3
MaxAcquires == 4
TickFine == 250
MaxNowFine == 2000
MaxRetriesBound == 3
TickCoarse == 2000
MaxEntities == 3
MaxLimit == 2
NumOrgs == 3
NumUsers == 2
PageSize == 2
MaxFilterLen == 2
MaxArgs == 3
MaxEntitiesLive == 3
MaxNowCoarse == 8000

\* --------------------------------------------------------- program constants
MilliPerToken == 1000
DefaultMaxRetries == 3
SecondsPerDay == 86400
Day20051217 == 13134
RateLimitStatus == 429
DefaultLimit == 40

VARIABLES
  capacity,      \* TokenBucketRateLimiter.capacity (tokens)
  refillRate,    \* TokenBucketRateLimiter.refillRate (tokens per second)
  tokens,        \* TokenBucketRateLimiter.tokens, in thousandths of a token
  lastRefill,    \* TokenBucketRateLimiter.lastRefill (ms)
  now,           \* Date.now() (ms)
  acq,           \* per caller: state of its pending acquireToken promise
  timerDue,      \* per caller: due time of the setTimeout(tryAcquire) timer
  recordGrants,  \* whether grantTimes is kept in this specification
  grantTimes,    \* history: the time of every token grant, in grant order
  grantCount,    \* history: number of token grants
  immediate,     \* history: acquireToken calls granted with no suspension
                 \*          before the first suspended call
  suspended,     \* history: some acquireToken call has been suspended
  acquireCalls,  \* history: number of acquireToken calls made
  exec,          \* per caller: its executeWithRateLimit invocation
                 \*   pc: where the invocation is, attempt: the loop variable,
                 \*   err: status of the error it threw (0: none)
  backoffDue,    \* per caller: due time of the backoff setTimeout
  sleeps,        \* history, per caller: the backoffTime of every backoff of
                 \*   the current invocation, in order (ms)
  outcomes,      \* history, per caller: the result of every apiCall() of the
                 \*   current invocation, in order (0: resolved, else status)
  maxRetries,    \* the maxRetries argument of executeWithRateLimit
  behaviour,     \* per caller: how the remote service answers its calls
  request,       \* per caller: the remote call its apiCall makes
  callCount,     \* history: number of remote calls issued
  remoteLog,     \* history: the set of remote calls issued
  CONCURRENCY_LIMIT, \* parseInt(process.env.CONCURRENCY) || 40
  dryRun,        \* dateFilter.dryRun
  entities,      \* deleteEntitiesConcurrently: the entities argument
  entityType,    \* deleteEntitiesConcurrently: the entityType argument
  deleteFunction,\* deleteEntitiesConcurrently: the remote delete it calls
  dpc,           \* deleteEntitiesConcurrently: where its body is
                 \*   idle: not called, loop: at the top of the for loop,
                 \*   launch: past the limit check, race / all: suspended in
                 \*   await Promise.race / Promise.all, done: returned
  next,          \* index in entities of the for loop's current entity
  processingQueue, \* the deletion promises, named by entity index
  reactions,     \* per deletion promise: its reactions, in registration order
  settled,       \* the deletion promises that have settled
  results,       \* results.successful and results.failed
  jobs,          \* the promise reaction jobs of the microtask queue (FIFO)
  raceResolved,  \* whether the current Promise.race promise is resolved
  allRemaining,  \* Promise.all: number of promises not yet fulfilled
  progress,      \* ProgressTracker: total, completed, successful, failed
  mpc,           \* main: the orchestrator state (none: main is not running)
  dateFilter,    \* the parsed arguments: mode, date, startDate, endDate
  deleteUsersFlag, \* dateFilter.deleteUsers
  after,         \* fetchAll*: the cursor of the next page (0: null)
  fetched,       \* fetchAll*: allOrganizations / allUsers
  orgResults,    \* main: orgResults
  userResults,   \* main: userResults, meaningful when usersHandled
  usersHandled,  \* main: userResults is not null
  exitCode,      \* the argument of process.exit (-1: still running)
  summary,       \* what printSummary has printed: one report per call
  argv,          \* process.argv.slice(2): the flags and the other arguments
  env            \* process.env: CONCURRENCY, MAX_REQUESTS_PER_SECOND and
                 \*   WORKOS_API_KEY, as texts (empty: not set)

limiterVars == <<capacity, refillRate, tokens, lastRefill, now>>
acquireVars == <<acq, timerDue, recordGrants, grantTimes, grantCount, immediate,
                 suspended, acquireCalls>>
execVars == <<exec, backoffDue, sleeps, outcomes, maxRetries, behaviour,
              request>>
remoteVars == <<callCount, remoteLog>>
configVars == <<CONCURRENCY_LIMIT, dryRun>>
deleterVars == <<entities, entityType, deleteFunction, dpc, next,
                 processingQueue, reactions, settled, results, jobs,
                 raceResolved, allRemaining, progress>>
mainVars == <<mpc, dateFilter, deleteUsersFlag, after, fetched, orgResults,
              userResults, usersHandled, exitCode, summary, argv, env>>
vars == <<limiterVars, acquireVars, execVars, remoteVars, configVars,
          deleterVars, mainVars>>

Min(a, b) == IF a <= b THEN a ELSE b
Max(a, b) == IF a >= b THEN a ELSE b

\* Math.ceil(a / b) for a >= 0, b > 0
CeilDiv(a, b) == (a + b - 1) \div b

Clients == 1..MaxClients

\* the callers of the rate limiter: 0 is main (the fetcher), the others are
\* clients or per-entity deletion tasks
Callers == 0..Max(MaxClients, MaxEntities)

\* Math.pow(2, n)
RECURSIVE Pow2(_)
Pow2(n) == IF n <= 0 THEN 1 ELSE 2 * Pow2(n - 1)

\* statuses of the errors a remote call can fail with: rate limited, not
\* found, and 0 for an error that carries no status (a network error)
NotFoundStatus == 404
NetworkError == -1
ErrorStatuses == {RateLimitStatus, NotFoundStatus, NetworkError}
Ok == 0

\* no remote call
NoRequest == [api |-> "none", arg |-> 0]

\* ---------------------------------------------------------- rate limiter
\* a constructor that starts the bucket empty
LimiterInitEmpty(rate) ==
  /\ capacity = rate
  /\ refillRate = rate
  /\ tokens = 0
  /\ lastRefill = 0
  /\ now = 0

\* constructor: capacity = tokens = refillRate = maxRequestsPerSecond
LimiterInit(rate) ==
  /\ capacity = rate
  /\ refillRate = rate
  /\ tokens = rate * MilliPerToken
  /\ lastRefill = 0
  /\ now = 0

\* refillTokens without the Math.min cap
RefilledUncapped(tok, last, t) == tok + (t - last) * refillRate

\* a bucket that is never refilled
RefilledStale(tok, last, t) == tok

\* refillTokens: the value of this.tokens after the refill at time t
Refilled(tok, last, t) ==
  Min(capacity * MilliPerToken, tok + (t - last) * refillRate)

\* Math.ceil(1000 / this.refillRate), clamped by setTimeout to at least 1 ms
waitTime == Max(1, CeilDiv(1000, refillRate))

\* a tryAcquire that resolves without taking the token
tryAcquireNoDecrement(c, first) ==
  LET t == Refilled(tokens, lastRefill, now) IN
  /\ lastRefill' = now
  /\ IF t >= MilliPerToken
       THEN /\ tokens' = t
            /\ acq' = [acq EXCEPT ![c] = "granted"]
            /\ timerDue' = [timerDue EXCEPT ![c] = 0]
            /\ grantTimes' = IF recordGrants THEN Append(grantTimes, now)
                                              ELSE grantTimes
            /\ grantCount' = grantCount + 1
            /\ immediate' = IF first /\ ~suspended THEN immediate + 1
                                                  ELSE immediate
            /\ suspended' = suspended
       ELSE /\ tokens' = t
            /\ acq' = [acq EXCEPT ![c] = "waiting"]
            /\ timerDue' = [timerDue EXCEPT ![c] = now + waitTime]
            /\ UNCHANGED <<grantTimes, grantCount>>
            /\ immediate' = immediate
            /\ suspended' = (suspended \/ first)
  /\ acquireCalls' = IF first THEN acquireCalls + 1 ELSE acquireCalls
  /\ UNCHANGED <<capacity, refillRate, now, recordGrants>>

\* a tryAcquire that admits a caller on a fraction of a token
tryAcquireOnFraction(c, first) ==
  LET t == Refilled(tokens, lastRefill, now) IN
  /\ lastRefill' = now
  /\ IF t > 0
       THEN /\ tokens' = t - MilliPerToken
            /\ acq' = [acq EXCEPT ![c] = "granted"]
            /\ timerDue' = [timerDue EXCEPT ![c] = 0]
            /\ grantTimes' = IF recordGrants THEN Append(grantTimes, now)
                                              ELSE grantTimes
            /\ grantCount' = grantCount + 1
            /\ immediate' = IF first /\ ~suspended THEN immediate + 1
                                                  ELSE immediate
            /\ suspended' = suspended
       ELSE /\ tokens' = t
            /\ acq' = [acq EXCEPT ![c] = "waiting"]
            /\ timerDue' = [timerDue EXCEPT ![c] = now + waitTime]
            /\ UNCHANGED <<grantTimes, grantCount>>
            /\ immediate' = immediate
            /\ suspended' = (suspended \/ first)
  /\ acquireCalls' = IF first THEN acquireCalls + 1 ELSE acquireCalls
  /\ UNCHANGED <<capacity, refillRate, now, recordGrants>>

\* tryAcquire: refill, then either take one token and resolve, or re-arm the
\* timer.  first tells the synchronous call from acquireToken() apart from a
\* timer callback.
tryAcquire(c, first) ==
  LET t == Refilled(tokens, lastRefill, now) IN
  /\ lastRefill' = now
  /\ IF t >= MilliPerToken
       THEN /\ tokens' = t - MilliPerToken
            /\ acq' = [acq EXCEPT ![c] = "granted"]
            /\ timerDue' = [timerDue EXCEPT ![c] = 0]
            /\ grantTimes' = IF recordGrants THEN Append(grantTimes, now)
                                              ELSE grantTimes
            /\ grantCount' = grantCount + 1
            /\ immediate' = IF first /\ ~suspended THEN immediate + 1
                                                  ELSE immediate
            /\ suspended' = suspended
       ELSE /\ tokens' = t
            /\ acq' = [acq EXCEPT ![c] = "waiting"]
            /\ timerDue' = [timerDue EXCEPT ![c] = now + waitTime]
            /\ UNCHANGED <<grantTimes, grantCount>>
            /\ immediate' = immediate
            /\ suspended' = (suspended \/ first)
  /\ acquireCalls' = IF first THEN acquireCalls + 1 ELSE acquireCalls
  /\ UNCHANGED <<capacity, refillRate, now, recordGrants>>

\* main is running synchronous code, or a continuation of main is pending
MainRunning ==
  \/ mpc \in {"FilterOrgs", "FilterUsers", "Summarize"}
  \/ mpc \in {"DeleteOrgs", "DeleteUsers"} /\ dpc \in {"idle", "done"}
  \/ mpc \in {"FetchOrgs", "FetchUsers"} /\ exec[0].pc = "idle"

\* no promise continuation is pending: the microtask queue is empty, so the
\* event loop may run the next timer or I/O callback
Quiescent ==
  /\ jobs = <<>>
  /\ dpc \notin {"loop", "launch"}
  /\ ~MainRunning
  /\ \A c \in Callers :
       /\ acq[c] # "granted"
       /\ exec[c].pc \notin {"returned", "threw"}

\* a client calls rateLimiter.acquireToken()
AcquireToken(c) ==
  /\ acq[c] = "none"
  /\ acquireCalls < MaxAcquires
  /\ tryAcquire(c, TRUE)
  /\ UNCHANGED <<execVars, remoteVars, configVars, deleterVars, mainVars>>

\* the setTimeout(tryAcquire, waitTime) timer of a waiting caller fires
TimerTryAcquire(c) ==
  /\ acq[c] = "waiting"
  /\ now >= timerDue[c]
  /\ Quiescent
  /\ tryAcquire(c, FALSE)
  /\ UNCHANGED <<execVars, remoteVars, configVars, deleterVars, mainVars>>

\* the awaiting client resumes after its promise resolved
ClientResume(c) ==
  /\ acq[c] = "granted"
  /\ exec[c].pc = "idle"
  /\ acq' = [acq EXCEPT ![c] = "none"]
  /\ UNCHANGED <<limiterVars, timerDue, recordGrants, grantTimes, grantCount,
                 immediate, suspended,
                 acquireCalls, execVars, remoteVars, configVars, deleterVars,
                 mainVars>>

\* getAvailableTokens: refill and read Math.floor(this.tokens)
getAvailableTokens ==
  /\ tokens' = Refilled(tokens, lastRefill, now)
  /\ lastRefill' = now
  /\ UNCHANGED <<capacity, refillRate, now, acquireVars, execVars,
                 remoteVars, configVars, deleterVars, mainVars>>

\* the wall clock advances by d ms, up to the horizon h
Tick(d, h) ==
  /\ now + d <= h
  /\ now' = now + d
  /\ UNCHANGED <<capacity, refillRate, tokens, lastRefill, acquireVars,
                 execVars, remoteVars, configVars, deleterVars, mainVars>>

\* the clock as the event loop sees it: promise continuations take no
\* measurable time, the clock advances while the loop waits for a timer or
\* for I/O
TickCoarsely ==
  /\ Quiescent
  /\ \E c \in Callers : acq[c] = "waiting" \/ exec[c].pc \in {"call", "backoff"}
  /\ Tick(TickCoarse, MaxNowCoarse)

AcquireInit(record) ==
  /\ recordGrants = record
  /\ grantCount = 0
  /\ acq = [c \in Callers |-> "none"]
  /\ timerDue = [c \in Callers |-> 0]
  /\ grantTimes = <<>>
  /\ immediate = 0
  /\ suspended = FALSE
  /\ acquireCalls = 0

\* ------------------------------------------------- executeWithRateLimit
IdleExec == [pc |-> "idle", attempt |-> 0, err |-> Ok]

ExecInit(retries) ==
  /\ exec = [c \in Callers |-> IdleExec]
  /\ backoffDue = [c \in Callers |-> 0]
  /\ sleeps = [c \in Callers |-> <<>>]
  /\ outcomes = [c \in Callers |-> <<>>]
  /\ maxRetries = retries
  /\ request = [c \in Callers |-> NoRequest]

RemoteInit ==
  /\ callCount = 0
  /\ remoteLog = {}

\* the answers the remote service may give to caller c's next call:
\*   "any"    any answer;   "ok" always succeeds;
\*   "flaky"  rate limited on the first attempt, then succeeds;
\*   a status: always fails with that status
Answers(c) ==
  CASE behaviour[c] = "any" -> {Ok} \cup ErrorStatuses
    [] behaviour[c] = "ok" -> {Ok}
    [] behaviour[c] = "flaky" ->
         IF outcomes[c] = <<>> THEN {RateLimitStatus} ELSE {Ok}
    [] behaviour[c] = "ratelimited" -> {RateLimitStatus}
    [] behaviour[c] = "notfound" -> {NotFoundStatus}
    [] behaviour[c] = "network" -> {NetworkError}

\* executeWithRateLimit(apiCall) is called: attempt = 1, and the first
\* statement of the loop body calls acquireToken(), whose tryAcquire runs
\* synchronously.  With maxRetries < 1 the loop body never runs and the
\* function returns undefined.
ExecBegin(c, req) ==
  /\ request' = [request EXCEPT ![c] = req]
  /\ sleeps' = [sleeps EXCEPT ![c] = <<>>]
  /\ outcomes' = [outcomes EXCEPT ![c] = <<>>]
  /\ IF 1 <= maxRetries
       THEN /\ exec' = [exec EXCEPT ![c] =
                          [pc |-> "acquire", attempt |-> 1, err |-> Ok]]
            /\ tryAcquire(c, TRUE)
       ELSE /\ exec' = [exec EXCEPT ![c] =
                          [pc |-> "returned", attempt |-> 1, err |-> Ok]]
            /\ UNCHANGED <<limiterVars, acquireVars>>
  /\ UNCHANGED <<backoffDue, maxRetries, behaviour>>

\* the token was granted: apiCall() is invoked, the remote call is issued
ExecAcquired(c) ==
  /\ exec[c].pc = "acquire"
  /\ acq[c] = "granted"
  /\ dpc \notin {"loop", "launch"}
  /\ acq' = [acq EXCEPT ![c] = "none"]
  /\ exec' = [exec EXCEPT ![c].pc = "call"]
  /\ callCount' = callCount + 1
  /\ remoteLog' = remoteLog \cup {request[c]}
  /\ UNCHANGED <<limiterVars, timerDue, recordGrants, grantTimes, grantCount,
                 immediate, suspended,
                 acquireCalls, backoffDue, sleeps, outcomes, maxRetries,
                 behaviour, request, configVars, deleterVars, mainVars>>

\* a catch block that backs off after the last attempt too
CatchAlwaysBackoff(c, status) ==
  IF status = RateLimitStatus
    THEN /\ exec' = [exec EXCEPT ![c].pc = "backoff"]
         /\ sleeps' = [sleeps EXCEPT ![c] =
                         Append(@, Pow2(exec[c].attempt) * 1000)]
         /\ backoffDue' = [backoffDue EXCEPT ![c] =
                             now + Pow2(exec[c].attempt) * 1000]
    ELSE /\ exec' = [exec EXCEPT ![c].pc = "threw", ![c].err = status]
         /\ UNCHANGED <<sleeps, backoffDue>>

\* a catch block that retries after any error before the last attempt
CatchRetryAnyError(c, status) ==
  IF exec[c].attempt < maxRetries
    THEN /\ exec' = [exec EXCEPT ![c].pc = "backoff"]
         /\ sleeps' = [sleeps EXCEPT ![c] =
                         Append(@, Pow2(exec[c].attempt) * 1000)]
         /\ backoffDue' = [backoffDue EXCEPT ![c] =
                             now + Pow2(exec[c].attempt) * 1000]
    ELSE /\ exec' = [exec EXCEPT ![c].pc = "threw", ![c].err = status]
         /\ UNCHANGED <<sleeps, backoffDue>>

\* a catch block whose backoff grows linearly: attempt * 1000 ms
CatchLinearBackoff(c, status) ==
  IF status = RateLimitStatus /\ exec[c].attempt < maxRetries
    THEN /\ exec' = [exec EXCEPT ![c].pc = "backoff"]
         /\ sleeps' = [sleeps EXCEPT ![c] =
                         Append(@, exec[c].attempt * 1000)]
         /\ backoffDue' = [backoffDue EXCEPT ![c] =
                             now + exec[c].attempt * 1000]
    ELSE /\ exec' = [exec EXCEPT ![c].pc = "threw", ![c].err = status]
         /\ UNCHANGED <<sleeps, backoffDue>>

\* the catch block: a 429 before the last attempt sleeps
\* Math.pow(2, attempt) * 1000 ms and continues; anything else is rethrown
Catch(c, status) ==
  IF status = RateLimitStatus /\ exec[c].attempt < maxRetries
    THEN /\ exec' = [exec EXCEPT ![c].pc = "backoff"]
         /\ sleeps' = [sleeps EXCEPT ![c] =
                         Append(@, Pow2(exec[c].attempt) * 1000)]
         /\ backoffDue' = [backoffDue EXCEPT ![c] =
                             now + Pow2(exec[c].attempt) * 1000]
    ELSE /\ exec' = [exec EXCEPT ![c].pc = "threw", ![c].err = status]
         /\ UNCHANGED <<sleeps, backoffDue>>

\* the remote call of caller c settles with answer r: return await apiCall()
Response(c, r) ==
  /\ exec[c].pc = "call"
  /\ Quiescent
  /\ r \in Answers(c)
  /\ outcomes' = [outcomes EXCEPT ![c] = Append(@, r)]
  /\ IF r = Ok
       THEN /\ exec' = [exec EXCEPT ![c].pc = "returned"]
            /\ UNCHANGED <<sleeps, backoffDue>>
       ELSE Catch(c, r)
  /\ UNCHANGED <<limiterVars, acquireVars, maxRetries, behaviour, request,
                 remoteVars, configVars, deleterVars, mainVars>>

\* a retry that invokes apiCall again without acquiring a token
BackoffDoneNoAcquire(c) ==
  /\ exec[c].pc = "backoff"
  /\ now >= backoffDue[c]
  /\ Quiescent
  /\ exec' = [exec EXCEPT ![c].pc = "call", ![c].attempt = @ + 1]
  /\ callCount' = callCount + 1
  /\ remoteLog' = remoteLog \cup {request[c]}
  /\ backoffDue' = [backoffDue EXCEPT ![c] = 0]
  /\ UNCHANGED <<limiterVars, acquireVars, sleeps, outcomes, maxRetries,
                 behaviour, request, configVars, deleterVars, mainVars>>

\* a retry that asks for the page after the one that was rate limited
BackoffDoneNextPage(c) ==
  /\ exec[c].pc = "backoff"
  /\ now >= backoffDue[c]
  /\ Quiescent
  /\ IF exec[c].attempt + 1 <= maxRetries
       THEN /\ exec' = [exec EXCEPT ![c].pc = "acquire",
                                    ![c].attempt = @ + 1]
            /\ tryAcquire(c, TRUE)
       ELSE /\ exec' = [exec EXCEPT ![c].pc = "returned",
                                    ![c].attempt = @ + 1]
            /\ UNCHANGED <<limiterVars, acquireVars>>
  /\ backoffDue' = [backoffDue EXCEPT ![c] = 0]
  /\ request' = [request EXCEPT ![c].arg = @ + PageSize]
  /\ UNCHANGED <<sleeps, outcomes, maxRetries, behaviour,
                 remoteVars, configVars, deleterVars, mainVars>>

\* the backoff timer fires: continue with the next attempt, whose first
\* statement calls acquireToken().  A loop that ran out of attempts returns
\* undefined.
BackoffDone(c) ==
  /\ exec[c].pc = "backoff"
  /\ now >= backoffDue[c]
  /\ Quiescent
  /\ IF exec[c].attempt + 1 <= maxRetries
       THEN /\ exec' = [exec EXCEPT ![c].pc = "acquire",
                                    ![c].attempt = @ + 1]
            /\ tryAcquire(c, TRUE)
       ELSE /\ exec' = [exec EXCEPT ![c].pc = "returned",
                                    ![c].attempt = @ + 1]
            /\ UNCHANGED <<limiterVars, acquireVars>>
  /\ backoffDue' = [backoffDue EXCEPT ![c] = 0]
  /\ UNCHANGED <<sleeps, outcomes, maxRetries, behaviour,
                 request, remoteVars, configVars, deleterVars, mainVars>>

\* -------------------------------------------------------- date filter
\* the digits of String(n), as character codes
RECURSIVE Digits(_)
Digits(n) ==
  IF n < 10 THEN <<48 + n>> ELSE Append(Digits(n \div 10), 48 + (n % 10))

\* String(n).padStart(2, '0')
Pad2(n) == IF n < 10 THEN <<48, 48 + n>> ELSE Digits(n)

\* getUTCFullYear, getUTCMonth() + 1 and getUTCDate of the instant t
\* (seconds since the epoch): the proleptic Gregorian calendar
UTCDate(t) ==
  LET z == (t \div SecondsPerDay) + 719468
      era == z \div 146097
      doe == z - era * 146097
      yoe == (doe - doe \div 1460 + doe \div 36524 - doe \div 146096) \div 365
      doy == doe - (365 * yoe + yoe \div 4 - yoe \div 100)
      mp == (5 * doy + 2) \div 153
      d == doy - (153 * mp + 2) \div 5 + 1
      m == IF mp < 10 THEN mp + 3 ELSE mp - 9
      y == yoe + era * 400 + (IF m <= 2 THEN 1 ELSE 0)
  IN [year |-> y, month |-> m, day |-> d]

\* `${year}-${month}-${day}` as a sequence of character codes
DateStr(t) ==
  LET date == UTCDate(t) IN
  Digits(date.year) \o <<45>> \o Pad2(date.month) \o <<45>> \o Pad2(date.day)

\* a < b on strings: the order of the first differing code unit, a proper
\* prefix first
RECURSIVE StrLess(_, _)
StrLess(a, b) ==
  IF b = <<>> THEN FALSE
  ELSE IF a = <<>> THEN TRUE
  ELSE IF Head(a) # Head(b) THEN Head(a) < Head(b)
  ELSE StrLess(Tail(a), Tail(b))

\* an inclusive comparison turned exclusive
StrLeqStrict(a, b) == StrLess(a, b)

StrLeq(a, b) == a = b \/ StrLess(a, b)

\* the date arguments "2005-12-17" and "2005-12-25"
Arg20051217 == <<50, 48, 48, 53, 45, 49, 50, 45, 49, 55>>
Arg20051225 == <<50, 48, 48, 53, 45, 49, 50, 45, 50, 53>>

\* the values parseArguments returns for one date and for two dates
SingleFilter(date) ==
  [mode |-> "single", date |-> date, startDate |-> <<>>, endDate |-> <<>>]
RangeFilter(start, end) ==
  [mode |-> "range", date |-> <<>>, startDate |-> start, endDate |-> end]

DateFilters ==
  {SingleFilter(Arg20051217), RangeFilter(Arg20051217, Arg20051225)}

matchesDateFilter(createdAt) ==
  LET dateStr == DateStr(createdAt) IN
  IF dateFilter.mode = "single"
    THEN dateStr = dateFilter.date
    ELSE StrLeq(dateFilter.startDate, dateStr)
         /\ StrLeq(dateStr, dateFilter.endDate)

\* a filter that keeps the entities without createdAt
filterByDateKeepsUndated(ents) ==
  SelectSeq(ents, LAMBDA e : e.createdAt = 0 \/ matchesDateFilter(e.createdAt))

\* entities.filter(...): no createdAt excludes the entity
filterByDate(ents) ==
  SelectSeq(ents, LAMBDA e : e.createdAt # 0 /\ matchesDateFilter(e.createdAt))

\* ------------------------------------------------------------- entities
\* creation instants (seconds since the epoch, 0: no createdAt) around the
\* day boundaries of 2005-12-17 and 2005-12-25
Stamps ==
  << Day20051217 * SecondsPerDay + SecondsPerDay - 1,
     (Day20051217 + 1) * SecondsPerDay,
     0,
     Day20051217 * SecondsPerDay - 1,
     (Day20051217 + 8) * SecondsPerDay + SecondsPerDay - 1,
     (Day20051217 + 9) * SecondsPerDay >>

Stamp(i) == Stamps[((i - 1) % Len(Stamps)) + 1]

\* the i-th organization and the i-th user of the remote service
Org(i) ==
  [id |-> i, name |-> IF i % 2 = 1 THEN "Acme" ELSE "",
   firstName |-> "", lastName |-> "", email |-> "", createdAt |-> Stamp(i)]

User(i) ==
  [id |-> 100 + i, name |-> "",
   firstName |-> IF i % 2 = 1 THEN "Ann" ELSE "", lastName |-> "Lee",
   email |-> IF i % 3 = 0 THEN "" ELSE "ann@x.io", createdAt |-> Stamp(i + 1)]

\* the name of an outcome: a text is the sequence of its parts
DisplayName(entity, type) ==
  IF type = "organization"
    THEN IF entity.name # "" THEN <<entity.name>> ELSE <<"Unnamed">>
    ELSE IF entity.firstName # "" /\ entity.lastName # ""
           THEN <<entity.firstName, " ", entity.lastName>>
           ELSE IF entity.email # "" THEN <<entity.email>>
                                     ELSE <<"Unnamed">>

\* the name the dry run gives an outcome
DryRunName(entity, type) ==
  IF type = "organization"
    THEN IF entity.name # "" THEN <<entity.name>> ELSE <<"Unnamed">>
    ELSE IF entity.email # "" THEN <<entity.email>> ELSE <<"Unnamed">>

\* error.message of a failed remote call
ErrorMessage(status) ==
  CASE status = RateLimitStatus -> "Too Many Requests"
    [] status = NotFoundStatus -> "Not Found"
    [] OTHER -> "Network timeout"

\* ----------------------------------------------- deleteEntitiesConcurrently
ConfigInit(limit, dry) ==
  /\ CONCURRENCY_LIMIT = limit
  /\ dryRun = dry

NoResults == [successful |-> <<>>, failed |-> <<>>]
NoProgress == [total |-> 0, completed |-> 0, successful |-> 0, failed |-> 0]

DeleterIdle ==
  /\ entities = <<>>
  /\ entityType = "organization"
  /\ deleteFunction = "deleteOrganization"
  /\ dpc = "idle"
  /\ next = 1
  /\ processingQueue = <<>>
  /\ reactions = [c \in Callers |-> <<>>]
  /\ settled = {}
  /\ results = NoResults
  /\ jobs = <<>>
  /\ raceResolved = FALSE
  /\ allRemaining = 0
  /\ progress = NoProgress

Job(kind, who, gen) == [kind |-> kind, who |-> who, gen |-> gen]

InQueue(k) == \E i \in 1..Len(processingQueue) : processingQueue[i] = k

\* a reaction is registered on every promise of the processing queue: a
\* pending promise keeps it, a settled one queues its job at once
Registered(kind, gen) ==
  [k \in Callers |->
     IF InQueue(k) /\ k \notin settled
       THEN Append(reactions[k], Job(kind, k, gen))
       ELSE reactions[k]]

JobsOfSettled(kind, gen) ==
  LET done == SelectSeq(processingQueue, LAMBDA k : k \in settled) IN
  [i \in 1..Len(done) |-> Job(kind, done[i], gen)]

\* a call that ignores the dry-run flag
DeleteBeginNoDryRun(ents, type, fn) ==
  /\ entities' = ents
  /\ entityType' = type
  /\ deleteFunction' = fn
  /\ next' = 1
  /\ processingQueue' = <<>>
  /\ reactions' = [c \in Callers |-> <<>>]
  /\ settled' = {}
  /\ raceResolved' = FALSE
  /\ allRemaining' = 0
  /\ jobs' = jobs
  /\ IF Len(ents) = 0
       THEN /\ results' = NoResults
            /\ progress' = NoProgress
            /\ dpc' = "done"
       ELSE /\ results' = NoResults
            /\ progress' = [total |-> Len(ents), completed |-> 0,
                            successful |-> 0, failed |-> 0]
            /\ dpc' = "loop"

\* a call without the early return for an empty list
DeleteBeginNoEmptyCheck(ents, type, fn) ==
  /\ entities' = ents
  /\ entityType' = type
  /\ deleteFunction' = fn
  /\ next' = 1
  /\ processingQueue' = <<>>
  /\ reactions' = [c \in Callers |-> <<>>]
  /\ settled' = {}
  /\ raceResolved' = FALSE
  /\ allRemaining' = 0
  /\ jobs' = jobs
  /\ IF FALSE
       THEN /\ results' = NoResults
            /\ progress' = NoProgress
            /\ dpc' = "done"
       ELSE IF dryRun
         THEN /\ results' =
                   [successful |->
                      [i \in 1..Len(ents) |->
                         [id |-> ents[i].id,
                          name |-> DryRunName(ents[i], type),
                          createdAt |-> ents[i].createdAt]],
                    failed |-> <<>>]
              /\ progress' = NoProgress
              /\ dpc' = "done"
         ELSE /\ results' = NoResults
              /\ progress' = [total |-> Len(ents), completed |-> 0,
                              successful |-> 0, failed |-> 0]
              /\ dpc' = "loop"

\* the call: the empty input and the dry run return at once, otherwise the
\* results, the progress tracker and the queue are set up
DeleteBegin(ents, type, fn) ==
  /\ entities' = ents
  /\ entityType' = type
  /\ deleteFunction' = fn
  /\ next' = 1
  /\ processingQueue' = <<>>
  /\ reactions' = [c \in Callers |-> <<>>]
  /\ settled' = {}
  /\ raceResolved' = FALSE
  /\ allRemaining' = 0
  /\ jobs' = jobs
  /\ IF Len(ents) = 0
       THEN /\ results' = NoResults
            /\ progress' = NoProgress
            /\ dpc' = "done"
       ELSE IF dryRun
         THEN /\ results' =
                   [successful |->
                      [i \in 1..Len(ents) |->
                         [id |-> ents[i].id,
                          name |-> DryRunName(ents[i], type),
                          createdAt |-> ents[i].createdAt]],
                    failed |-> <<>>]
              /\ progress' = NoProgress
              /\ dpc' = "done"
         ELSE /\ results' = NoResults
              /\ progress' = [total |-> Len(ents), completed |-> 0,
                              successful |-> 0, failed |-> 0]
              /\ dpc' = "loop"

\* a limit check that lets one promise too many into the queue
QueueFullOffByOne(len) == len > CONCURRENCY_LIMIT

\* a limit check that always finds the queue full
QueueFullAlways(len) == TRUE

\* processingQueue.length >= CONCURRENCY_LIMIT
QueueFull(len) == len >= CONCURRENCY_LIMIT

\* the deletion task of the current entity starts: the async function runs
\* up to its first await (the token acquisition inside executeWithRateLimit),
\* its promise is pushed and the finally callback is registered on it
Launch ==
  /\ ExecBegin(next, [api |-> deleteFunction, arg |-> entities[next].id])
  /\ processingQueue' = Append(processingQueue, next)
  /\ reactions' = [reactions EXCEPT ![next] = <<Job("finally", next, 0)>>]
  /\ next' = next + 1
  /\ dpc' = "loop"
  /\ UNCHANGED <<entities, entityType, deleteFunction, settled, results,
                 jobs, raceResolved, allRemaining, progress, remoteVars,
                 configVars, mainVars>>

\* a dispatcher that waits for the oldest outstanding task only
AwaitRaceOldest ==
  /\ dpc' = "race"
  /\ raceResolved' = FALSE
  /\ LET oldest == Head(processingQueue) IN
     IF oldest \in settled
       THEN /\ jobs' = Append(jobs, Job("race", oldest, next))
            /\ reactions' = reactions
       ELSE /\ jobs' = jobs
            /\ reactions' = [reactions EXCEPT ![oldest] =
                              Append(@, Job("race", oldest, next))]
  /\ UNCHANGED <<entities, entityType, deleteFunction, next,
                 processingQueue, settled, results, allRemaining, progress,
                 limiterVars, acquireVars, execVars, remoteVars, configVars,
                 mainVars>>

\* await Promise.race(processingQueue)
AwaitRace ==
  /\ dpc' = "race"
  /\ raceResolved' = FALSE
  /\ reactions' = Registered("race", next)
  /\ jobs' = jobs \o JobsOfSettled("race", next)
  /\ UNCHANGED <<entities, entityType, deleteFunction, next,
                 processingQueue, settled, results, allRemaining, progress,
                 limiterVars, acquireVars, execVars, remoteVars, configVars,
                 mainVars>>

\* a final wait that does not wait for the outstanding promises
AwaitAllNoWait ==
  /\ dpc' = "all"
  /\ allRemaining' = 0
  /\ reactions' = reactions
  /\ jobs' = Append(jobs, Job("resume", 0, 0))
  /\ UNCHANGED <<entities, entityType, deleteFunction, next,
                 processingQueue, settled, results, raceResolved, progress,
                 limiterVars, acquireVars, execVars, remoteVars, configVars,
                 mainVars>>

\* await Promise.all(processingQueue): an empty queue resolves at once
AwaitAll ==
  /\ dpc' = "all"
  /\ allRemaining' = Len(processingQueue)
  /\ reactions' = Registered("all", 0)
  /\ jobs' = IF Len(processingQueue) = 0
               THEN Append(jobs, Job("resume", 0, 0))
               ELSE jobs \o JobsOfSettled("all", 0)
  /\ UNCHANGED <<entities, entityType, deleteFunction, next,
                 processingQueue, settled, results, raceResolved, progress,
                 limiterVars, acquireVars, execVars, remoteVars, configVars,
                 mainVars>>

\* one iteration of the for loop, from its top: wait at the limit, else
\* start the deletion; after the last entity, wait for the remaining ones
LoopStep ==
  /\ dpc = "loop"
  /\ IF next > Len(entities)
       THEN AwaitAll
       ELSE IF QueueFull(Len(processingQueue)) THEN AwaitRace ELSE Launch

\* the loop body continues after the await of Promise.race
LaunchAfterRace ==
  /\ dpc = "launch"
  /\ Launch

\* a catch block that records the failure without progress.update(false)
TaskSettledNoProgress(k) ==
  /\ dpc \in {"race", "all"}
  /\ k < next
  /\ exec[k].pc \in {"returned", "threw"}
  /\ exec' = [exec EXCEPT ![k].pc = "done"]
  /\ IF exec[k].pc = "returned"
       THEN /\ results' = [results EXCEPT !.successful =
                 Append(@, [id |-> entities[k].id,
                            name |-> DisplayName(entities[k], entityType),
                            createdAt |-> entities[k].createdAt])]
            /\ progress' = [progress EXCEPT !.completed = @ + 1,
                                            !.successful = @ + 1]
       ELSE /\ results' = [results EXCEPT !.failed =
                 Append(@, [id |-> entities[k].id,
                            name |-> DisplayName(entities[k], entityType),
                            createdAt |-> entities[k].createdAt,
                            error |-> ErrorMessage(exec[k].err)])]
            /\ progress' = progress
  /\ settled' = settled \cup {k}
  /\ jobs' = jobs \o reactions[k]
  /\ reactions' = [reactions EXCEPT ![k] = <<>>]
  /\ UNCHANGED <<limiterVars, acquireVars, backoffDue, sleeps, outcomes,
                 maxRetries, behaviour, request, remoteVars, configVars,
                 entities, entityType, deleteFunction, dpc, next,
                 processingQueue, raceResolved, allRemaining, mainVars>>

\* a deletion task without the catch: a failed delete rejects the deletion
\* promise, and the rejection reaches the caller of the deleter
TaskSettledNoCatch(k) ==
  /\ dpc \in {"race", "all"}
  /\ k < next
  /\ exec[k].pc \in {"returned", "threw"}
  /\ exec' = [exec EXCEPT ![k].pc = "done"]
  /\ IF exec[k].pc = "returned"
       THEN /\ results' = [results EXCEPT !.successful =
                 Append(@, [id |-> entities[k].id,
                            name |-> DisplayName(entities[k], entityType),
                            createdAt |-> entities[k].createdAt])]
            /\ progress' = [progress EXCEPT !.completed = @ + 1,
                                            !.successful = @ + 1]
            /\ dpc' = dpc
       ELSE /\ results' = results
            /\ progress' = progress
            /\ dpc' = "threw"
  /\ settled' = settled \cup {k}
  /\ jobs' = jobs \o reactions[k]
  /\ reactions' = [reactions EXCEPT ![k] = <<>>]
  /\ UNCHANGED <<limiterVars, acquireVars, backoffDue, sleeps, outcomes,
                 maxRetries, behaviour, request, remoteVars, configVars,
                 entities, entityType, deleteFunction, next,
                 processingQueue, raceResolved, allRemaining, mainVars>>

\* the try / catch of a deletion task continues after its
\* executeWithRateLimit settled: the outcome is pushed, the progress tracker
\* updated, and the deletion promise settles, queueing its reactions
TaskSettled(k) ==
  /\ dpc \in {"race", "all"}
  /\ k < next
  /\ exec[k].pc \in {"returned", "threw"}
  /\ exec' = [exec EXCEPT ![k].pc = "done"]
  /\ IF exec[k].pc = "returned"
       THEN /\ results' = [results EXCEPT !.successful =
                 Append(@, [id |-> entities[k].id,
                            name |-> DisplayName(entities[k], entityType),
                            createdAt |-> entities[k].createdAt])]
            /\ progress' = [progress EXCEPT !.completed = @ + 1,
                                            !.successful = @ + 1]
       ELSE /\ results' = [results EXCEPT !.failed =
                 Append(@, [id |-> entities[k].id,
                            name |-> DisplayName(entities[k], entityType),
                            createdAt |-> entities[k].createdAt,
                            error |-> ErrorMessage(exec[k].err)])]
            /\ progress' = [progress EXCEPT !.completed = @ + 1,
                                            !.failed = @ + 1]
  /\ settled' = settled \cup {k}
  /\ jobs' = jobs \o reactions[k]
  /\ reactions' = [reactions EXCEPT ![k] = <<>>]
  /\ UNCHANGED <<limiterVars, acquireVars, backoffDue, sleeps, outcomes,
                 maxRetries, behaviour, request, remoteVars, configVars,
                 entities, entityType, deleteFunction, dpc, next,
                 processingQueue, raceResolved, allRemaining, mainVars>>

\* a finally callback that leaves the settled promise in the queue
SplicedNothing(q, k) == q

\* processingQueue.splice(processingQueue.indexOf(promise), 1)
Spliced(q, k) == SelectSeq(q, LAMBDA x : x # k)

\* the microtask queue runs its first promise reaction job
RunJob ==
  /\ jobs # <<>>
  /\ dpc \notin {"loop", "launch"}
  /\ LET job == Head(jobs) IN
     CASE job.kind = "finally" ->
            /\ processingQueue' = Spliced(processingQueue, job.who)
            /\ jobs' = Tail(jobs)
            /\ UNCHANGED <<dpc, raceResolved, allRemaining>>
       [] job.kind = "race" ->
            IF dpc = "race" /\ job.gen = next /\ ~raceResolved
              THEN /\ raceResolved' = TRUE
                   /\ jobs' = Append(Tail(jobs), Job("resume", 0, 0))
                   /\ UNCHANGED <<dpc, processingQueue, allRemaining>>
              ELSE /\ jobs' = Tail(jobs)
                   /\ UNCHANGED <<dpc, processingQueue, raceResolved,
                                  allRemaining>>
       [] job.kind = "all" ->
            /\ allRemaining' = allRemaining - 1
            /\ jobs' = IF allRemaining = 1
                         THEN Append(Tail(jobs), Job("resume", 0, 0))
                         ELSE Tail(jobs)
            /\ UNCHANGED <<dpc, processingQueue, raceResolved>>
       [] job.kind = "resume" ->
            /\ dpc' = IF dpc = "race" THEN "launch" ELSE "done"
            /\ jobs' = Tail(jobs)
            /\ UNCHANGED <<processingQueue, raceResolved, allRemaining>>
  /\ UNCHANGED <<limiterVars, acquireVars, execVars, remoteVars, configVars,
                 entities, entityType, deleteFunction, next, reactions,
                 settled, results, progress, mainVars>>

\* ----------------------------------------------------------------- main
\* the arguments and the environment that lead to a given configuration
DatesOf(filter) ==
  IF filter.mode = "single" THEN <<filter.date>>
                            ELSE <<filter.startDate, filter.endDate>>

ArgvOf(filter, users, dry) ==
  [flags |-> (IF users THEN {"--users"} ELSE {})
               \cup (IF dry THEN {"--dry-run"} ELSE {}),
   dates |-> DatesOf(filter)]

\* the text of an API key
ApiKey == <<115, 107>>

EnvOf(limit, rate) ==
  [CONCURRENCY |-> Digits(limit), MAX_REQUESTS_PER_SECOND |-> Digits(rate),
   WORKOS_API_KEY |-> ApiKey]

MainIdle ==
  /\ mpc = "none"
  /\ dateFilter = SingleFilter(Arg20051217)
  /\ deleteUsersFlag = FALSE
  /\ after = 0
  /\ fetched = <<>>
  /\ orgResults = NoResults
  /\ userResults = NoResults
  /\ usersHandled = FALSE
  /\ exitCode = -1
  /\ summary = <<>>
  /\ argv = ArgvOf(dateFilter, deleteUsersFlag, dryRun)
  /\ env = EnvOf(CONCURRENCY_LIMIT, capacity)

\* the remote collections, in the order the listing returns them
RemoteOrgs == [i \in 1..NumOrgs |-> Org(i)]
RemoteUsers == [i \in 1..NumUsers |-> User(i)]

RemoteCollection(api) ==
  IF api = "listOrganizations" THEN RemoteOrgs ELSE RemoteUsers

\* the page a list call with cursor c returns: response.data and
\* response.listMetadata.after (0: none); the cursor is the position of the
\* last item already returned
PageData(api, c) ==
  LET all == RemoteCollection(api) IN
  SubSeq(all, c + 1, Min(c + PageSize, Len(all)))

\* a remote service that never returns a cursor
PageAfterNone(api, c) == 0

PageAfter(api, c) ==
  IF c + PageSize < Len(RemoteCollection(api)) THEN c + PageSize ELSE 0

\* fetchAll*: the list call for the next page goes through
\* executeWithRateLimit
FetchPage(api) ==
  ExecBegin(0, [api |-> api, arg |-> after])

\* main starts: without WORKOS_API_KEY an error is printed and the process
\* exits with 1; otherwise the first page of organizations is requested
MainStart ==
  /\ mpc = "start"
  /\ IF env.WORKOS_API_KEY = <<>>
       THEN /\ mpc' = "Rejected"
            /\ exitCode' = 1
            /\ UNCHANGED <<after, fetched, limiterVars, acquireVars, execVars>>
       ELSE /\ mpc' = "FetchOrgs"
            /\ after' = 0
            /\ fetched' = <<>>
            /\ FetchPage("listOrganizations")
            /\ UNCHANGED exitCode
  /\ UNCHANGED <<remoteVars, configVars, deleterVars, dateFilter,
                 deleteUsersFlag, orgResults, userResults, usersHandled,
                 summary, argv, env>>

\* the catch block of main: the error message is printed, process.exit(1)
MainFails ==
  /\ mpc' = "Failed"
  /\ exitCode' = 1
  /\ exec' = [exec EXCEPT ![0].pc = "done"]
  /\ UNCHANGED <<limiterVars, acquireVars, backoffDue, sleeps, outcomes,
                 maxRetries, behaviour, request, remoteVars, configVars,
                 deleterVars, dateFilter, deleteUsersFlag, after, fetched,
                 orgResults, userResults, usersHandled, summary,
                 argv, env>>

\* a fetch loop that asks for the next page with the cursor of the previous
\* request instead of the one the response returned
FetchSettledStaleCursor ==
  /\ mpc \in {"FetchOrgs", "FetchUsers"}
  /\ exec[0].pc \in {"returned", "threw"}
  /\ IF exec[0].pc = "threw"
       THEN MainFails
       ELSE LET api == request[0].api
                cursor == PageAfter(api, request[0].arg)
            IN
            /\ fetched' = fetched \o PageData(api, request[0].arg)
            /\ after' = cursor
            /\ IF cursor # 0
                 THEN /\ ExecBegin(0, [api |-> api, arg |-> request[0].arg])
                      /\ mpc' = mpc
                 ELSE /\ exec' = [exec EXCEPT ![0] = IdleExec]
                      /\ mpc' = IF mpc = "FetchOrgs" THEN "FilterOrgs"
                                                     ELSE "FilterUsers"
                      /\ UNCHANGED <<limiterVars, acquireVars, backoffDue,
                                     sleeps, outcomes, maxRetries, behaviour,
                                     request>>
            /\ UNCHANGED <<remoteVars, configVars, deleterVars, dateFilter,
                           deleteUsersFlag, orgResults, userResults,
                           usersHandled, exitCode, summary,
                 argv, env>>

\* a fetch that swallows the error of a list call and returns what it has
FetchSettledSwallows ==
  /\ mpc \in {"FetchOrgs", "FetchUsers"}
  /\ exec[0].pc \in {"returned", "threw"}
  /\ LET api == request[0].api
         cursor == IF exec[0].pc = "threw"
                     THEN 0 ELSE PageAfter(api, request[0].arg)
     IN
     /\ fetched' = IF exec[0].pc = "threw"
                     THEN fetched
                     ELSE fetched \o PageData(api, request[0].arg)
     /\ after' = cursor
     /\ IF cursor # 0
          THEN /\ ExecBegin(0, [api |-> api, arg |-> cursor])
               /\ mpc' = mpc
          ELSE /\ exec' = [exec EXCEPT ![0] = IdleExec]
               /\ mpc' = IF mpc = "FetchOrgs" THEN "FilterOrgs"
                                              ELSE "FilterUsers"
               /\ UNCHANGED <<limiterVars, acquireVars, backoffDue,
                              sleeps, outcomes, maxRetries, behaviour,
                              request>>
     /\ UNCHANGED <<remoteVars, configVars, deleterVars, dateFilter,
                    deleteUsersFlag, orgResults, userResults,
                    usersHandled, exitCode, summary, argv, env>>

\* a list call settled: a page is appended and the next one requested, the
\* last page ends the fetch; an error is rethrown to main
FetchSettled ==
  /\ mpc \in {"FetchOrgs", "FetchUsers"}
  /\ exec[0].pc \in {"returned", "threw"}
  /\ IF exec[0].pc = "threw"
       THEN MainFails
       ELSE LET api == request[0].api
                cursor == PageAfter(api, request[0].arg)
            IN
            /\ fetched' = fetched \o PageData(api, request[0].arg)
            /\ after' = cursor
            /\ IF cursor # 0
                 THEN /\ ExecBegin(0, [api |-> api, arg |-> cursor])
                      /\ mpc' = mpc
                 ELSE /\ exec' = [exec EXCEPT ![0] = IdleExec]
                      /\ mpc' = IF mpc = "FetchOrgs" THEN "FilterOrgs"
                                                     ELSE "FilterUsers"
                      /\ UNCHANGED <<limiterVars, acquireVars, backoffDue,
                                     sleeps, outcomes, maxRetries, behaviour,
                                     request>>
            /\ UNCHANGED <<remoteVars, configVars, deleterVars, dateFilter,
                           deleteUsersFlag, orgResults, userResults,
                           usersHandled, exitCode, summary,
                 argv, env>>

\* a main that hands every fetched entity to the deleter
SelectedUnfiltered(all) == all

\* organizationsToDelete / usersToDelete
SelectedForDeletion(all) == filterByDate(all)

\* the fetched entities are filtered and handed to
\* deleteEntitiesConcurrently with the delete call of their type
FilterAndDelete ==
  /\ mpc \in {"FilterOrgs", "FilterUsers"}
  /\ dpc = "idle"
  /\ IF mpc = "FilterOrgs"
       THEN /\ DeleteBegin(SelectedForDeletion(fetched), "organization",
                           "deleteOrganization")
            /\ mpc' = "DeleteOrgs"
       ELSE /\ DeleteBegin(SelectedForDeletion(fetched), "user", "deleteUser")
            /\ mpc' = "DeleteUsers"
  /\ UNCHANGED <<limiterVars, acquireVars, execVars, remoteVars, configVars,
                 dateFilter, deleteUsersFlag, after, fetched, orgResults,
                 userResults, usersHandled, exitCode, summary,
                 argv, env>>

\* a main that does not await the deletion of the organizations
DeleteReturnedNoAwait ==
  /\ mpc \in {"DeleteOrgs", "DeleteUsers"}
  /\ dpc \in {"race", "all", "done"}
  /\ jobs = <<>>
  /\ dpc' = "idle"
  /\ IF mpc = "DeleteOrgs"
       THEN /\ orgResults' = results
            /\ UNCHANGED <<userResults, usersHandled>>
            /\ IF deleteUsersFlag
                 THEN /\ mpc' = "FetchUsers"
                      /\ after' = 0
                      /\ fetched' = <<>>
                      /\ FetchPage("listUsers")
                 ELSE /\ mpc' = "Summarize"
                      /\ UNCHANGED <<after, fetched, limiterVars, acquireVars,
                                     execVars>>
       ELSE /\ userResults' = results
            /\ usersHandled' = TRUE
            /\ mpc' = "Summarize"
            /\ UNCHANGED <<orgResults, after, fetched, limiterVars,
                           acquireVars, execVars>>
  /\ UNCHANGED <<remoteVars, configVars, entities, entityType,
                 deleteFunction, next, processingQueue, reactions, settled,
                 results, jobs, raceResolved, allRemaining, progress,
                 dateFilter, deleteUsersFlag, exitCode, summary,
                 argv, env>>

\* a main that handles the users whether or not --users is set
DeleteReturnedAlwaysUsers ==
  /\ mpc \in {"DeleteOrgs", "DeleteUsers"}
  /\ dpc = "done"
  /\ jobs = <<>>
  /\ dpc' = "idle"
  /\ IF mpc = "DeleteOrgs"
       THEN /\ orgResults' = results
            /\ UNCHANGED <<userResults, usersHandled>>
            /\ IF TRUE
                 THEN /\ mpc' = "FetchUsers"
                      /\ after' = 0
                      /\ fetched' = <<>>
                      /\ FetchPage("listUsers")
                 ELSE /\ mpc' = "Summarize"
                      /\ UNCHANGED <<after, fetched, limiterVars, acquireVars,
                                     execVars>>
       ELSE /\ userResults' = results
            /\ usersHandled' = TRUE
            /\ mpc' = "Summarize"
            /\ UNCHANGED <<orgResults, after, fetched, limiterVars,
                           acquireVars, execVars>>
  /\ UNCHANGED <<remoteVars, configVars, entities, entityType,
                 deleteFunction, next, processingQueue, reactions, settled,
                 results, jobs, raceResolved, allRemaining, progress,
                 dateFilter, deleteUsersFlag, exitCode, summary,
                 argv, env>>

\* a main that skips the users when the deletion of an organization failed
DeleteReturnedStopsOnFailure ==
  /\ mpc \in {"DeleteOrgs", "DeleteUsers"}
  /\ dpc = "done"
  /\ jobs = <<>>
  /\ dpc' = "idle"
  /\ IF mpc = "DeleteOrgs"
       THEN /\ orgResults' = results
            /\ UNCHANGED <<userResults, usersHandled>>
            /\ IF deleteUsersFlag /\ results.failed = <<>>
                 THEN /\ mpc' = "FetchUsers"
                      /\ after' = 0
                      /\ fetched' = <<>>
                      /\ FetchPage("listUsers")
                 ELSE /\ mpc' = "Summarize"
                      /\ UNCHANGED <<after, fetched, limiterVars, acquireVars,
                                     execVars>>
       ELSE /\ userResults' = results
            /\ usersHandled' = TRUE
            /\ mpc' = "Summarize"
            /\ UNCHANGED <<orgResults, after, fetched, limiterVars,
                           acquireVars, execVars>>
  /\ UNCHANGED <<remoteVars, configVars, entities, entityType,
                 deleteFunction, next, processingQueue, reactions, settled,
                 results, jobs, raceResolved, allRemaining, progress,
                 dateFilter, deleteUsersFlag, exitCode, summary,
                 argv, env>>

\* deleteEntitiesConcurrently returned to main: after the organizations the
\* users are fetched when --users is set, otherwise the summary follows
DeleteReturned ==
  /\ mpc \in {"DeleteOrgs", "DeleteUsers"}
  /\ dpc = "done"
  /\ jobs = <<>>
  /\ dpc' = "idle"
  /\ IF mpc = "DeleteOrgs"
       THEN /\ orgResults' = results
            /\ UNCHANGED <<userResults, usersHandled>>
            /\ IF deleteUsersFlag
                 THEN /\ mpc' = "FetchUsers"
                      /\ after' = 0
                      /\ fetched' = <<>>
                      /\ FetchPage("listUsers")
                 ELSE /\ mpc' = "Summarize"
                      /\ UNCHANGED <<after, fetched, limiterVars, acquireVars,
                                     execVars>>
       ELSE /\ userResults' = results
            /\ usersHandled' = TRUE
            /\ mpc' = "Summarize"
            /\ UNCHANGED <<orgResults, after, fetched, limiterVars,
                           acquireVars, execVars>>
  /\ UNCHANGED <<remoteVars, configVars, entities, entityType,
                 deleteFunction, next, processingQueue, reactions, settled,
                 results, jobs, raceResolved, allRemaining, progress,
                 dateFilter, deleteUsersFlag, exitCode, summary,
                 argv, env>>

\* an exit code that only looks at the organizations
SummarizeOrgsOnly ==
  /\ mpc = "Summarize"
  /\ mpc' = "Done"
  /\ exitCode' = IF Len(orgResults.failed) > 0 THEN 1 ELSE 0
  /\ UNCHANGED <<limiterVars, acquireVars, execVars, remoteVars, configVars,
                 deleterVars, dateFilter, deleteUsersFlag, after, fetched,
                 orgResults, userResults, usersHandled, argv, env>>
  /\ summary' = Append(summary, [organizations |-> orgResults,
                                 users |-> userResults,
                                 withUsers |-> usersHandled])

\* printSummary, then process.exit(totalFailed > 0 ? 1 : 0)
Summarize ==
  /\ mpc = "Summarize"
  /\ mpc' = "Done"
  /\ exitCode' = IF Len(orgResults.failed)
                    + (IF usersHandled THEN Len(userResults.failed) ELSE 0) > 0
                   THEN 1 ELSE 0
  /\ UNCHANGED <<limiterVars, acquireVars, execVars, remoteVars, configVars,
                 deleterVars, dateFilter, deleteUsersFlag, after, fetched,
                 orgResults, userResults, usersHandled, argv, env>>
  /\ summary' = Append(summary, [organizations |-> orgResults,
                                 users |-> userResults,
                                 withUsers |-> usersHandled])

\* -------------------------------------------------------------- startup
\* the decimal digits a text starts with
RECURSIVE LeadingDigits(_)
LeadingDigits(text) ==
  IF text = <<>> \/ Head(text) \notin 48..57
    THEN <<>>
    ELSE <<Head(text)>> \o LeadingDigits(Tail(text))

\* the number a sequence of digits denotes
RECURSIVE NumberOf(_)
NumberOf(digits) ==
  IF digits = <<>> THEN 0
  ELSE NumberOf(SubSeq(digits, 1, Len(digits) - 1)) * 10
         + (digits[Len(digits)] - 48)

\* parseInt(text): an optional sign, then the leading digits; NaN without a
\* digit (an unset variable is undefined, which gives NaN too)
parseInt(text) ==
  LET signed == text # <<>> /\ Head(text) \in {43, 45}
      digits == LeadingDigits(IF signed THEN Tail(text) ELSE text)
  IN IF digits = <<>>
       THEN [nan |-> TRUE, val |-> 0]
       ELSE [nan |-> FALSE,
             val |-> IF Head(text) = 45 THEN 0 - NumberOf(digits)
                                        ELSE NumberOf(digits)]

\* parseInt(...) || 40: NaN and 0 are falsy
OrDefault(parsed) ==
  IF parsed.nan \/ parsed.val = 0 THEN DefaultLimit ELSE parsed.val

\* /^\d{4}-\d{2}-\d{2}$/.test(text)
MatchesDateRegex(text) ==
  /\ Len(text) = 10
  /\ \A i \in {1, 2, 3, 4, 6, 7, 9, 10} : text[i] \in 48..57
  /\ text[5] = 45
  /\ text[8] = 45

YearOf(text) == NumberOf(SubSeq(text, 1, 4))
MonthOf(text) == NumberOf(SubSeq(text, 6, 7))
DayOf(text) == NumberOf(SubSeq(text, 9, 10))

IsLeapYear(y) == y % 4 = 0 /\ (y % 100 # 0 \/ y % 400 = 0)

DaysInMonth(y, m) ==
  IF m = 2 THEN (IF IsLeapYear(y) THEN 29 ELSE 28)
  ELSE IF m \in {4, 6, 9, 11} THEN 30 ELSE 31

\* whether new Date(text) is a valid date for a text of the form YYYY-MM-DD.
\* The month must be 1..12.  A day that the month does not have, up to 31, is
\* rejected by a parser that follows the language standard and rolled over
\* into the next month by a lenient one.
DateParses(text, lenient) ==
  /\ MonthOf(text) \in 1..12
  /\ DayOf(text) >= 1
  /\ DayOf(text) <= (IF lenient THEN 31
                                ELSE DaysInMonth(YearOf(text), MonthOf(text)))

\* the time value of new Date(text), in days since the epoch
DateValue(text) ==
  LET m == MonthOf(text)
      y == IF m <= 2 THEN YearOf(text) - 1 ELSE YearOf(text)
      era == y \div 400
      yoe == y - era * 400
      doy == (153 * (IF m > 2 THEN m - 3 ELSE m + 9) + 2) \div 5
               + DayOf(text) - 1
      doe == yoe * 365 + yoe \div 4 - yoe \div 100 + doy
  IN era * 146097 + doe - 719468

\* validateDate(text) returns a date (otherwise it exits with 1)
validateDate(text, lenient) ==
  MatchesDateRegex(text) /\ DateParses(text, lenient)

\* the outcome of parseArguments: the argument of process.exit (-1: it
\* returns), and the fields of the returned value
Exits(code) ==
  [code |-> code, filter |-> SingleFilter(<<>>), deleteUsers |-> FALSE,
   dryRun |-> FALSE]

parseArguments(lenient) ==
  LET args == argv.dates IN
  IF "--help" \in argv.flags \/ "-h" \in argv.flags THEN Exits(0)
  ELSE IF Len(args) = 0 THEN Exits(1)
  ELSE IF Len(args) = 1
    THEN IF validateDate(args[1], lenient)
           THEN [code |-> -1, filter |-> SingleFilter(args[1]),
                 deleteUsers |-> "--users" \in argv.flags,
                 dryRun |-> "--dry-run" \in argv.flags]
           ELSE Exits(1)
  ELSE IF Len(args) = 2
    THEN IF ~validateDate(args[1], lenient) THEN Exits(1)
         ELSE IF ~validateDate(args[2], lenient) THEN Exits(1)
         ELSE IF DateValue(args[1]) > DateValue(args[2]) THEN Exits(1)
         ELSE [code |-> -1, filter |-> RangeFilter(args[1], args[2]),
               deleteUsers |-> "--users" \in argv.flags,
               dryRun |-> "--dry-run" \in argv.flags]
  ELSE Exits(1)

\* the module is loaded: the configuration is read from the environment, the
\* rate limiter is constructed, the arguments are parsed (which may end the
\* process), and main is called
LoadModule ==
  /\ mpc = "load"
  /\ CONCURRENCY_LIMIT' = OrDefault(parseInt(env.CONCURRENCY))
  /\ LET rate == OrDefault(parseInt(env.MAX_REQUESTS_PER_SECOND)) IN
       /\ capacity' = rate
       /\ refillRate' = rate
       /\ tokens' = rate * MilliPerToken
       /\ lastRefill' = now
  /\ \E lenient \in BOOLEAN :
       LET parsed == parseArguments(lenient) IN
       IF parsed.code # -1
         THEN /\ mpc' = IF parsed.code = 0 THEN "Help" ELSE "Rejected"
              /\ exitCode' = parsed.code
              /\ UNCHANGED <<dateFilter, deleteUsersFlag, dryRun>>
         ELSE /\ mpc' = "start"
              /\ dateFilter' = parsed.filter
              /\ deleteUsersFlag' = parsed.deleteUsers
              /\ dryRun' = parsed.dryRun
              /\ UNCHANGED exitCode
  /\ UNCHANGED <<now, acquireVars, execVars, remoteVars, deleterVars, after,
                 fetched, orgResults, userResults, usersHandled, summary,
                 argv, env>>

\* --------------------------------------------- specification of a run
\* the remote service of a run: it answers each call in any way, or the
\* lists succeed and every entity has already been deleted
RunBehaviours ==
  {[c \in Callers |-> "any"],
   [c \in Callers |-> IF c = 0 THEN "ok" ELSE "notfound"]}

Init ==
  /\ \E rate \in 1..MaxRate : LimiterInit(rate)
  /\ AcquireInit(FALSE)
  /\ ExecInit(DefaultMaxRetries)
  /\ behaviour \in RunBehaviours
  /\ RemoteInit
  /\ \E limit \in 1..MaxLimit, dry \in BOOLEAN : ConfigInit(limit, dry)
  /\ DeleterIdle
  /\ mpc = "start"
  /\ dateFilter \in DateFilters
  /\ deleteUsersFlag \in BOOLEAN
  /\ after = 0
  /\ fetched = <<>>
  /\ orgResults = NoResults
  /\ userResults = NoResults
  /\ usersHandled = FALSE
  /\ exitCode = -1
  /\ summary = <<>>
  /\ argv = ArgvOf(dateFilter, deleteUsersFlag, dryRun)
  /\ env = EnvOf(CONCURRENCY_LIMIT, capacity)

\* the answers of the remote service that a run distinguishes
RunAnswers == {Ok, RateLimitStatus, NotFoundStatus}

Next ==
  \/ MainStart
  \/ FetchSettled
  \/ FilterAndDelete
  \/ DeleteReturned
  \/ Summarize
  \/ LoopStep
  \/ LaunchAfterRace
  \/ \E c \in Callers : TimerTryAcquire(c)
  \/ \E c \in Callers : ExecAcquired(c)
  \/ \E c \in Callers, r \in RunAnswers : Response(c, r)
  \/ \E c \in Callers : BackoffDone(c)
  \/ \E k \in 1..MaxEntities : TaskSettled(k)
  \/ RunJob
  \/ TickCoarsely

Spec == Init /\ [][Next]_vars

\* --------------------------------------- specification of the deleter
Behaviours == {"ok", "ratelimited", "notfound"}

InitDelete ==
  /\ \E rate \in 1..MaxRate : LimiterInit(rate)
  /\ AcquireInit(FALSE)
  /\ ExecInit(DefaultMaxRetries)
  /\ behaviour \in [Callers -> Behaviours]
  /\ \A c \in Callers : c = 0 => behaviour[c] = "ok"
  /\ RemoteInit
  /\ \E limit \in 1..MaxLimit, dry \in BOOLEAN : ConfigInit(limit, dry)
  /\ DeleterIdle
  /\ MainIdle

\* main calls deleteEntitiesConcurrently with n organizations
DeleteCall(n) ==
  /\ dpc = "idle"
  /\ \A k \in Callers : k > n => behaviour[k] = "ok"
  /\ DeleteBegin([i \in 1..n |-> Org(i)], "organization",
                 "deleteOrganization")
  /\ UNCHANGED <<limiterVars, acquireVars, execVars, remoteVars, configVars,
                 mainVars>>

NextDelete ==
  \/ \E n \in 0..MaxEntities : DeleteCall(n)
  \/ LoopStep
  \/ LaunchAfterRace
  \/ \E k \in 1..MaxEntities : TimerTryAcquire(k)
  \/ \E k \in 1..MaxEntities : ExecAcquired(k)
  \/ \E k \in 1..MaxEntities, r \in {Ok} \cup ErrorStatuses : Response(k, r)
  \/ \E k \in 1..MaxEntities : BackoffDone(k)
  \/ \E k \in 1..MaxEntities : TaskSettled(k)
  \/ RunJob
  \/ TickCoarsely

SpecDelete == InitDelete /\ [][NextDelete]_vars

\* ------------------------------------------- specification of the limiter
InitLimiter ==
  /\ \E rate \in 1..MaxRate : LimiterInit(rate)
  /\ AcquireInit(TRUE)
  /\ ExecInit(DefaultMaxRetries)
  /\ behaviour = [c \in Callers |-> "any"]
  /\ RemoteInit
  /\ ConfigInit(1, FALSE)
  /\ DeleterIdle
  /\ MainIdle

TickLimiter == Tick(TickFine, MaxNowFine)

NextLimiter ==
  \/ \E c \in Clients : AcquireToken(c)
  \/ \E c \in Clients : TimerTryAcquire(c)
  \/ \E c \in Clients : ClientResume(c)
  \/ getAvailableTokens
  \/ TickLimiter

SpecLimiter == InitLimiter /\ [][NextLimiter]_vars

\* ------------------------------------------- specification of a start
\* date arguments: two dates, a text that is not of the form YYYY-MM-DD
\* ("2005-1-7"), a month that does not exist ("2005-13-01") and a day that
\* the month does not have ("2005-02-30")
Arg2005017 == <<50, 48, 48, 53, 45, 49, 45, 55>>
Arg20051301 == <<50, 48, 48, 53, 45, 49, 51, 45, 48, 49>>
Arg20050230 == <<50, 48, 48, 53, 45, 48, 50, 45, 51, 48>>

DateArgs == {Arg20051217, Arg20051225, Arg2005017, Arg20051301, Arg20050230}

Argvs ==
  [flags : SUBSET {"--users", "--dry-run", "--help"},
   dates : UNION {[1..n -> DateArgs] : n \in 0..MaxArgs}]

\* values of the numeric variables: not set, "1", "-1", "abc", "0"
NumberTexts == {<<>>, <<49>>, <<45, 49>>, <<97, 98, 99>>, <<48>>}

Envs ==
  [CONCURRENCY : NumberTexts, MAX_REQUESTS_PER_SECOND : NumberTexts,
   WORKOS_API_KEY : {<<>>, ApiKey}]

\* the process starts: nothing has been configured yet
InitStartup ==
  /\ capacity = 0
  /\ refillRate = 0
  /\ tokens = 0
  /\ lastRefill = 0
  /\ now = 0
  /\ AcquireInit(FALSE)
  /\ ExecInit(DefaultMaxRetries)
  /\ behaviour = [c \in Callers |-> "ok"]
  /\ RemoteInit
  /\ ConfigInit(0, FALSE)
  /\ DeleterIdle
  /\ mpc = "load"
  /\ dateFilter = SingleFilter(<<>>)
  /\ deleteUsersFlag = FALSE
  /\ after = 0
  /\ fetched = <<>>
  /\ orgResults = NoResults
  /\ userResults = NoResults
  /\ usersHandled = FALSE
  /\ exitCode = -1
  /\ summary = <<>>
  /\ argv \in Argvs
  /\ env \in Envs

NextStartup ==
  \/ LoadModule
  \/ MainStart
  \/ FetchSettled
  \/ FilterAndDelete
  \/ DeleteReturned
  \/ Summarize
  \/ LoopStep
  \/ LaunchAfterRace
  \/ \E c \in Callers : TimerTryAcquire(c)
  \/ \E c \in Callers : ExecAcquired(c)
  \/ \E c \in Callers : Response(c, Ok)
  \/ \E k \in 1..MaxEntities : TaskSettled(k)
  \/ RunJob
  \/ TickCoarsely

SpecStartup == InitStartup /\ [][NextStartup]_vars

\* ------------------------------------- specification of the date filter
\* creation instants (seconds since the epoch, 0: no createdAt): the first
\* and the last second of the days around 2005-12-17 and 2005-12-25, and the
\* same days of the month in other months and years
FilterInstants ==
  {0} \cup
  {d * SecondsPerDay + s :
     d \in {Day20051217 - 1, Day20051217, Day20051217 + 1, Day20051217 + 8,
            Day20051217 + 9, Day20051217 - 30, Day20051217 - 365,
            Day20051217 + 365 + 3},
     s \in {0, SecondsPerDay - 1}}

\* an entity of the given type at position i of a listing, created at stamp
EntityAt(type, i, stamp) ==
  IF type = "FilterOrgs" THEN [Org(i) EXCEPT !.createdAt = stamp]
                         ELSE [User(i) EXCEPT !.createdAt = stamp]

\* a dry run is at the point where a fetch has returned some entities
InitFilter ==
  /\ LimiterInit(1)
  /\ AcquireInit(FALSE)
  /\ ExecInit(DefaultMaxRetries)
  /\ behaviour = [c \in Callers |-> "ok"]
  /\ RemoteInit
  /\ ConfigInit(1, TRUE)
  /\ DeleterIdle
  /\ mpc \in {"FilterOrgs", "FilterUsers"}
  /\ dateFilter \in DateFilters
  /\ deleteUsersFlag = (mpc = "FilterUsers")
  /\ after = 0
  /\ \E n \in 0..MaxFilterLen : \E stamps \in [1..n -> FilterInstants] :
       fetched = [i \in 1..n |-> EntityAt(mpc, i, stamps[i])]
  /\ orgResults = NoResults
  /\ userResults = NoResults
  /\ usersHandled = FALSE
  /\ exitCode = -1
  /\ summary = <<>>
  /\ argv = ArgvOf(dateFilter, deleteUsersFlag, dryRun)
  /\ env = EnvOf(CONCURRENCY_LIMIT, capacity)

NextFilter ==
  \/ FilterAndDelete
  \/ DeleteReturned
  \/ Summarize

SpecFilter == InitFilter /\ [][NextFilter]_vars

\* ------------------------- specification of the limiter under fairness
\* the clients call acquireToken up to the time MaxNowFine; the clock runs
\* on long enough for MaxAcquires tokens to be refilled at the lowest rate
\* and polled for
HorizonLive == MaxNowFine + (2 * MaxAcquires + 1) * MilliPerToken

InitLimiterLive ==
  /\ \E rate \in 1..MaxRate : LimiterInit(rate)
  /\ AcquireInit(FALSE)
  /\ ExecInit(DefaultMaxRetries)
  /\ behaviour = [c \in Callers |-> "any"]
  /\ RemoteInit
  /\ ConfigInit(1, FALSE)
  /\ DeleterIdle
  /\ MainIdle

AcquireTokenLive(c) ==
  /\ now <= MaxNowFine
  /\ AcquireToken(c)

\* timers fire on time: the clock does not pass the due time of a timer
\* before its callback has run
NoTimerDue ==
  /\ \A c \in Callers : acq[c] = "waiting" => now < timerDue[c]
  /\ \A c \in Callers : exec[c].pc = "backoff" => now < backoffDue[c]

TickLive ==
  /\ Quiescent
  /\ NoTimerDue
  /\ Tick(TickFine, HorizonLive)

NextLimiterLive ==
  \/ \E c \in Clients : AcquireTokenLive(c)
  \/ \E c \in Clients : TimerTryAcquire(c)
  \/ \E c \in Clients : ClientResume(c)
  \/ TickLive

\* the clock advances, due timers fire and resolved promises are continued
SpecLimiterLive ==
  /\ InitLimiterLive
  /\ [][NextLimiterLive]_vars
  /\ WF_vars(TickLive)
  /\ \A c \in Clients : WF_vars(TimerTryAcquire(c))
  /\ \A c \in Clients : WF_vars(ClientResume(c))

\* ------------------------- specification of the deleter under fairness
\* the clock runs on long enough for every attempt of every entity to get a
\* token at the lowest rate and for every backoff to end
HorizonDelete == TickCoarse * (6 * MaxEntitiesLive + 2)

\* the clock advances while the event loop has nothing to run: no response
\* has arrived, no timer is due, and a timer is pending
TickDeleteLive ==
  /\ Quiescent
  /\ NoTimerDue
  /\ \A c \in Callers : exec[c].pc # "call"
  /\ \E c \in Callers : acq[c] = "waiting" \/ exec[c].pc = "backoff"
  /\ Tick(TickCoarse, HorizonDelete)

NextDeleteLive ==
  \/ \E n \in 0..MaxEntitiesLive : DeleteCall(n)
  \/ LoopStep
  \/ LaunchAfterRace
  \/ \E k \in 1..MaxEntities : TimerTryAcquire(k)
  \/ \E k \in 1..MaxEntities : ExecAcquired(k)
  \/ \E k \in 1..MaxEntities, r \in {Ok} \cup ErrorStatuses : Response(k, r)
  \/ \E k \in 1..MaxEntities : BackoffDone(k)
  \/ \E k \in 1..MaxEntities : TaskSettled(k)
  \/ RunJob
  \/ TickDeleteLive

\* every remote call returns, timers fire, promise jobs run, the clock
\* advances
SpecDeleteLive ==
  /\ InitDelete
  /\ [][NextDeleteLive]_vars
  /\ WF_vars(LoopStep)
  /\ WF_vars(LaunchAfterRace)
  /\ WF_vars(RunJob)
  /\ WF_vars(TickDeleteLive)
  /\ \A k \in 1..MaxEntities :
       /\ WF_vars(TimerTryAcquire(k))
       /\ WF_vars(ExecAcquired(k))
       /\ WF_vars(\E r \in {Ok} \cup ErrorStatuses : Response(k, r))
       /\ WF_vars(BackoffDone(k))
       /\ WF_vars(TaskSettled(k))

\* --------------------------------- specification of the retrying executor
\* two wrapped calls compete for the tokens
RetryCallers == {1, 2}

InitRetry ==
  /\ \E rate \in 1..MaxRate : LimiterInit(rate)
  /\ AcquireInit(FALSE)
  /\ \E retries \in 1..MaxRetriesBound : ExecInit(retries)
  /\ behaviour = [c \in Callers |-> "any"]
  /\ RemoteInit
  /\ ConfigInit(1, FALSE)
  /\ DeleterIdle
  /\ MainIdle

\* some code calls executeWithRateLimit(apiCall)
RetryCall(c) ==
  /\ exec[c].pc = "idle"
  /\ ExecBegin(c, [api |-> "apiCall", arg |-> c])
  /\ UNCHANGED <<remoteVars, configVars, deleterVars, mainVars>>

\* the caller's await of executeWithRateLimit settles
RetrySettled(c) ==
  /\ exec[c].pc \in {"returned", "threw"}
  /\ exec' = [exec EXCEPT ![c].pc = "done"]
  /\ UNCHANGED <<limiterVars, acquireVars, backoffDue, sleeps, outcomes,
                 maxRetries, behaviour, request, remoteVars, configVars,
                 deleterVars, mainVars>>

NextRetry ==
  \/ \E c \in RetryCallers : RetryCall(c)
  \/ \E c \in RetryCallers : TimerTryAcquire(c)
  \/ \E c \in RetryCallers : ExecAcquired(c)
  \/ \E c \in RetryCallers, r \in {Ok} \cup ErrorStatuses : Response(c, r)
  \/ \E c \in RetryCallers : BackoffDone(c)
  \/ \E c \in RetryCallers : RetrySettled(c)
  \/ TickCoarsely

SpecRetry == InitRetry /\ [][NextRetry]_vars

\* ------------------------------------------------------------ properties

\* C7: token bucket admission bound.  For a limiter configured with a
\* positive rate, the grants made in any window [t_i, t_j] of
\* T = (t_j - t_i) / 1000 seconds number at most
\* capacity + ceil(refillRate * T), whatever the callers do.
AdmissionBound ==
  \A i, j \in 1..Len(grantTimes) :
    i <= j =>
      (j - i + 1) <= capacity
                     + CeilDiv(refillRate * (grantTimes[j] - grantTimes[i]),
                               1000)

\* more grants than capacity have been made, the later ones from refills
\* after callers had to wait
AdmissionBoundWitness ==
  /\ Len(grantTimes) > capacity
  /\ suspended
  /\ grantTimes[Len(grantTimes)] > 0

\* C8 as stated: starting from the full bucket, exactly capacity
\* acquisitions succeed with no suspension before any suspension occurs.
BurstExactlyCapacity ==
  /\ immediate <= capacity
  /\ suspended => immediate = capacity

\* C8 amended: starting from the full bucket, the first capacity
\* acquisitions succeed with no suspension, so no suspension occurs before
\* capacity acquisitions were granted; and while no time has elapsed since
\* the bucket was full, exactly min(calls, capacity) calls were granted
\* immediately, so call capacity + 1 is the first to suspend.
BurstAtLeastCapacity ==
  /\ suspended => immediate >= capacity
  /\ now = 0 => /\ immediate = Min(acquireCalls, capacity)
                /\ suspended = (acquireCalls > capacity)

\* the zero-duration burst: capacity immediate grants, then a suspension
BurstWitness ==
  /\ now = 0
  /\ suspended
  /\ immediate = capacity
  /\ acquireCalls = capacity + 1

\* C9: in every state of a limiter configured with a positive rate,
\* 0 <= tokens <= capacity (tokens in thousandths).
TokensInRange ==
  /\ 0 <= tokens
  /\ tokens <= capacity * MilliPerToken

\* the bucket was drained, callers waited, and a later refill filled it to
\* capacity again
TokensInRangeWitness ==
  /\ suspended
  /\ Len(grantTimes) > capacity
  /\ lastRefill > 0
  /\ tokens = capacity * MilliPerToken

\* the deletion tasks that have started and not finished
InFlight == {k \in 1..(next - 1) : k \notin settled}

\* the ids of a sequence of outcomes
Ids(outs) == {outs[i].id : i \in 1..Len(outs)}

\* C1: with CONCURRENCY_LIMIT >= 1, at no point of a real (non-dry-run)
\* deletion are more than CONCURRENCY_LIMIT deletion tasks started and not
\* yet finished, whatever the order in which the tasks complete.
ConcurrencyBound ==
  CONCURRENCY_LIMIT >= 1 => Cardinality(InFlight) <= CONCURRENCY_LIMIT

\* the dispatcher waited at the limit, a task other than the oldest
\* finished, and the next task was started in its place: the limit is
\* reached again
ConcurrencyBoundWitness ==
  /\ ~dryRun
  /\ CONCURRENCY_LIMIT >= 2
  /\ Cardinality(InFlight) = CONCURRENCY_LIMIT
  /\ settled # {}
  /\ 1 \in InFlight

\* C2: deletion isolation.  A real deletion never throws, and when it
\* returns, successful holds exactly the entities whose delete succeeds and
\* failed exactly the entities whose delete always fails (not found, or
\* rate limited on every attempt).
DeletionIsolation ==
  /\ dpc # "threw"
  /\ (dpc = "done" /\ ~dryRun) =>
       /\ Ids(results.successful) =
            {entities[k].id : k \in {j \in 1..Len(entities) :
                                       behaviour[j] = "ok"}}
       /\ Ids(results.failed) =
            {entities[k].id : k \in {j \in 1..Len(entities) :
                                       behaviour[j] # "ok"}}

\* a deletion returned in which an entity failed, one dispatched before it
\* and one dispatched after it succeeded
DeletionIsolationWitness ==
  /\ dpc = "done"
  /\ ~dryRun
  /\ Len(entities) >= 3
  /\ behaviour[1] = "ok"
  /\ behaviour[2] # "ok"
  /\ behaviour[3] = "ok"
  /\ Len(results.failed) = 1

\* C3: when deleteEntitiesConcurrently returns, every input entity has
\* exactly one outcome in successful and failed together, the two lengths
\* add up to the number of entities, and no deletion task is outstanding.
ExactlyOneOutcome ==
  dpc = "done" =>
    LET all == results.successful \o results.failed IN
    /\ Len(all) = Len(entities)
    /\ \A k \in 1..Len(entities) :
         Cardinality({i \in 1..Len(all) : all[i].id = entities[k].id}) = 1
    /\ dryRun \/ InFlight = {}
    /\ \A c \in Callers : exec[c].pc \in {"idle", "done"}

\* a real deletion of at least three entities returned, with successes and
\* failures
ExactlyOneOutcomeWitness ==
  /\ dpc = "done"
  /\ ~dryRun
  /\ Len(entities) >= 3
  /\ results.successful # <<>>
  /\ results.failed # <<>>

\* C5: dry-run purity.  In dry-run mode the deleter issues no remote call
\* and acquires no token, and it returns a Success outcome for every input
\* entity, in input order, with failed empty.
DryRunPurity ==
  dryRun =>
    /\ callCount = 0
    /\ acquireCalls = 0
    /\ grantCount = 0
    /\ dpc \in {"idle", "done"}
    /\ dpc = "done" =>
         /\ results.failed = <<>>
         /\ Len(results.successful) = Len(entities)
         /\ \A i \in 1..Len(entities) :
              results.successful[i].id = entities[i].id

\* a dry run over several entities returned
DryRunPurityWitness ==
  /\ dryRun
  /\ dpc = "done"
  /\ Len(entities) >= 2
  /\ Len(results.successful) = Len(entities)

\* C10 as stated: with maxRetries = 3, a call that is rate limited on three
\* consecutive attempts is abandoned, the 429 rethrown, after waits of
\* exactly 2 s, 4 s and 8 s.
BackoffSchedule ==
  \A c \in RetryCallers :
    (/\ maxRetries = 3
     /\ exec[c].pc \in {"threw", "done"}
     /\ outcomes[c] = <<RateLimitStatus, RateLimitStatus, RateLimitStatus>>)
    => sleeps[c] = <<2000, 4000, 8000>>

\* ---------------------------------------------------- properties of a run
DeleteRequests(api) == {r \in remoteLog : r.api = api}

\* the ids of the remote entities of a collection that the date filter selects
SelectedIds(all) == Ids(filterByDate(all))

\* C4: every remote delete call is issued for the id of an entity that the
\* corresponding fetch returned and the date filter selected:
\* deleteOrganization only with the ids of selected organizations, deleteUser
\* only with the ids of selected users
DeleteOnlySelected ==
  /\ \A r \in DeleteRequests("deleteOrganization") :
       r.arg \in SelectedIds(RemoteOrgs)
  /\ \A r \in DeleteRequests("deleteUser") :
       r.arg \in SelectedIds(RemoteUsers)
  /\ mpc \in {"FetchOrgs", "FilterOrgs"} =>
       DeleteRequests("deleteOrganization") = {}
  /\ mpc \in {"FetchOrgs", "FilterOrgs", "DeleteOrgs", "FetchUsers",
              "FilterUsers"} =>
       DeleteRequests("deleteUser") = {}

\* a run deleted a selected organization and a selected user while entities
\* the filter rejects had been fetched too
DeleteOnlySelectedWitness ==
  /\ ~dryRun
  /\ mpc = "Done"
  /\ DeleteRequests("deleteOrganization") # {}
  /\ DeleteRequests("deleteUser") # {}
  /\ SelectedIds(RemoteOrgs) # Ids(RemoteOrgs)
  /\ SelectedIds(RemoteUsers) # Ids(RemoteUsers)

\* C6: under the dry-run flag, with or without the users, no remote delete
\* call is issued in any state of the run
DryRunNoRemoteDelete ==
  dryRun =>
    DeleteRequests("deleteOrganization") \cup DeleteRequests("deleteUser") = {}

\* a dry run with the users went through both fetches and both deletion
\* phases, reported entities as deleted and ended
DryRunNoRemoteDeleteWitness ==
  /\ dryRun
  /\ deleteUsersFlag
  /\ mpc = "Done"
  /\ usersHandled
  /\ orgResults.successful # <<>>
  /\ userResults.successful # <<>>
  /\ [api |-> "listOrganizations", arg |-> 0] \in remoteLog
  /\ [api |-> "listUsers", arg |-> 0] \in remoteLog

\* ------------------------------------------- properties of the executor
Last(seq) == seq[Len(seq)]

\* the remote calls caller c's wrapped call has issued so far
Invocations(c) == Len(outcomes[c]) + (IF exec[c].pc = "call" THEN 1 ELSE 0)

NetworkErrorRetried ==
  \A c \in RetryCallers :
    (/\ maxRetries = DefaultMaxRetries
     /\ exec[c].pc \in {"threw", "done"}
     /\ outcomes[c] # <<>>
     /\ \A i \in 1..Len(outcomes[c]) : outcomes[c][i] = NetworkError)
    => Len(outcomes[c]) >= 2

\* C13: every remote call of the run (list pages, delete attempts, every
\* retry after a 429) is preceded by its own token grant from the one shared
\* limiter: the number of remote calls issued never exceeds the number of
\* tokens granted, and every grant not yet used belongs to a caller that is
\* about to issue its call
CallsNeedTokens ==
  /\ callCount <= grantCount
  /\ grantCount - callCount = Cardinality({c \in Callers : acq[c] = "granted"})
  /\ \A c \in Callers : exec[c].pc = "call" => acq[c] = "none"

\* a run in which list calls and delete calls were issued and a call was
\* retried after a 429, each with a grant of its own
CallsNeedTokensWitness ==
  /\ callCount = grantCount
  /\ callCount >= 4
  /\ DeleteRequests("deleteOrganization") # {}
  /\ [api |-> "listOrganizations", arg |-> 0] \in remoteLog
  /\ \E c \in Callers :
       /\ exec[c].pc = "call"
       /\ exec[c].attempt = 2
       /\ outcomes[c] = <<RateLimitStatus>>

\* C14: paginated fetch completeness.  Against the stable pages of the remote
\* collection the fetch starts with no cursor, follows the returned cursors
\* until none is returned and ends with exactly the concatenation of the
\* pages in page order: every remote item once.  While pages are still being
\* fetched the accumulated list is the part of the collection before the
\* cursor.
FetchComplete ==
  /\ mpc = "FetchOrgs" => fetched = SubSeq(RemoteOrgs, 1, after)
  /\ mpc = "FetchUsers" => fetched = SubSeq(RemoteUsers, 1, after)
  /\ mpc \in {"FilterOrgs", "DeleteOrgs"} => fetched = RemoteOrgs
  /\ mpc \in {"FilterUsers", "DeleteUsers"} => fetched = RemoteUsers
  /\ \A r \in remoteLog :
       r.api \in {"listOrganizations", "listUsers"} =>
         /\ [api |-> r.api, arg |-> 0] \in remoteLog
         /\ r.arg # 0 => /\ r.arg = PageAfter(r.api, r.arg - PageSize)
                         /\ [api |-> r.api, arg |-> r.arg - PageSize]
                              \in remoteLog

\* the organizations were fetched in more than one page
FetchCompleteWitness ==
  /\ mpc = "FilterOrgs"
  /\ Len(RemoteOrgs) > PageSize
  /\ Len(fetched) = NumOrgs
  /\ [api |-> "listOrganizations", arg |-> PageSize] \in remoteLog

\* ------------------------------------------ properties of the date filter
\* the day (days since the epoch) a date argument names
TargetDay(arg) ==
  IF arg = Arg20051217 THEN Day20051217 ELSE Day20051217 + 8

\* the UTC calendar day of an instant is the target day, or lies in the
\* inclusive range of target days
DayMatches(createdAt) ==
  LET day == createdAt \div SecondsPerDay IN
  IF dateFilter.mode = "single"
    THEN day = TargetDay(dateFilter.date)
    ELSE /\ TargetDay(dateFilter.startDate) <= day
         /\ day <= TargetDay(dateFilter.endDate)

\* the filter has been applied to the fetched entities
Filtered == mpc \in {"DeleteOrgs", "DeleteUsers"}

\* C15: date filter correctness.  An entity with a creation timestamp is
\* selected if and only if its createdAt truncated to a UTC calendar day
\* equals the single target day, or lies in [start, end] inclusive for a
\* range
DateFilterCorrect ==
  Filtered =>
    \A i \in 1..Len(fetched) :
      fetched[i].createdAt # 0 =>
        (fetched[i].id \in Ids(entities) <=> DayMatches(fetched[i].createdAt))

\* a range filter was applied to an entity created in the last second before
\* the start day, which is rejected, and one created in the last second of
\* the end day, which is selected
DateFilterCorrectWitness ==
  /\ Filtered
  /\ dateFilter.mode = "range"
  /\ Len(fetched) = 2
  /\ fetched[1].createdAt = Day20051217 * SecondsPerDay - 1
  /\ fetched[2].createdAt = (Day20051217 + 9) * SecondsPerDay - 1
  /\ Ids(entities) = {fetched[2].id}

\* a is b with some elements left out
RECURSIVE IsSubsequence(_, _)
IsSubsequence(a, b) ==
  IF a = <<>> THEN TRUE
  ELSE IF b = <<>> THEN FALSE
  ELSE IF Head(a) = Head(b) THEN IsSubsequence(Tail(a), Tail(b))
  ELSE IsSubsequence(a, Tail(b))

\* C16: filterByDate returns an order-preserving subsequence of its input
\* (nothing added, duplicated or reordered) without any entity that lacks a
\* creation timestamp; a missing createdAt is not an error and does not abort
\* the run
FilterSubsequence ==
  /\ Filtered =>
       /\ IsSubsequence(entities, fetched)
       /\ \A j \in 1..Len(entities) : entities[j].createdAt # 0
       /\ \A j, k \in 1..Len(entities) :
            j # k => entities[j].id # entities[k].id
  /\ mpc # "Failed"
  /\ exitCode \in {-1, 0}

\* a listing whose first entity has no createdAt and whose second one matches
\* was filtered to the second one, and the run ended normally
FilterSubsequenceWitness ==
  /\ mpc = "Done"
  /\ exitCode = 0
  /\ Len(fetched) = 2
  /\ fetched[1].createdAt = 0
  /\ entities = <<fetched[2]>>

\* ---------------------------------------- properties of the empty call
\* C17: when the selected-entity sequence is empty, deleteEntitiesConcurrently
\* returns immediately with empty successful and failed sets, with no remote
\* call and no token acquisition, in dry-run and in real mode
EmptySelectionReturns ==
  (dpc # "idle" /\ entities = <<>>) =>
    /\ dpc = "done"
    /\ results = NoResults
    /\ callCount = 0
    /\ remoteLog = {}
    /\ acquireCalls = 0
    /\ grantCount = 0
    /\ tokens = capacity * MilliPerToken
    /\ processingQueue = <<>>
    /\ jobs = <<>>

\* a real (non-dry-run) call with no entity has returned
EmptySelectionReturnsWitness ==
  /\ ~dryRun
  /\ dpc = "done"
  /\ entities = <<>>
  /\ results = NoResults

\* ------------------------------------------- properties of the orchestrator
\* the transitions of the orchestrator: the chain of the phases, the user
\* phases being optional, and the abort of the run by a failed fetch
Forward ==
  {<<"start", "FetchOrgs">>, <<"FetchOrgs", "FilterOrgs">>,
   <<"FilterOrgs", "DeleteOrgs">>, <<"DeleteOrgs", "FetchUsers">>,
   <<"DeleteOrgs", "Summarize">>, <<"FetchUsers", "FilterUsers">>,
   <<"FilterUsers", "DeleteUsers">>, <<"DeleteUsers", "Summarize">>,
   <<"Summarize", "Done">>, <<"FetchOrgs", "Failed">>,
   <<"FetchUsers", "Failed">>}

\* no deletion task is started and unfinished
NoTaskRunning ==
  /\ dpc = "idle"
  /\ jobs = <<>>
  /\ \A k \in 1..MaxEntities : exec[k].pc \in {"idle", "done"}

\* C18: the orchestrator moves only forward through FetchOrgs, FilterOrgs,
\* DeleteOrgs, optionally FetchUsers, FilterUsers, DeleteUsers, then
\* Summarize and Done, never re-entering a state; the first listUsers call is
\* issued only after every organization delete task has finished
ForwardOnly ==
  /\ [][mpc' # mpc => <<mpc, mpc'>> \in Forward]_vars
  /\ [](mpc \in {"start", "FetchOrgs", "FilterOrgs", "DeleteOrgs"} =>
          \A r \in remoteLog : r.api # "listUsers")
  /\ [](mpc = "FetchUsers" =>
          /\ NoTaskRunning
          /\ Len(orgResults.successful) + Len(orgResults.failed)
               = Len(filterByDate(RemoteOrgs)))

\* a real run went through all the phases, the user phases included
ForwardOnlyWitness ==
  /\ ~dryRun
  /\ mpc = "Done"
  /\ usersHandled
  /\ DeleteRequests("deleteOrganization") # {}
  /\ [api |-> "listUsers", arg |-> 0] \in remoteLog

\* C19: when the include-users option is not set, the run issues no listUsers
\* and no deleteUser call and has no user outcomes; the user branch is entered
\* only when the option is set
UsersOnlyOnRequest ==
  /\ ~deleteUsersFlag =>
       /\ \A r \in remoteLog : r.api \notin {"listUsers", "deleteUser"}
       /\ ~usersHandled
       /\ userResults = NoResults
  /\ mpc \in {"FetchUsers", "FilterUsers", "DeleteUsers"} => deleteUsersFlag
  /\ usersHandled => deleteUsersFlag

\* a real run without the option deleted organizations and ended
UsersOnlyOnRequestWitness ==
  /\ ~deleteUsersFlag
  /\ ~dryRun
  /\ mpc = "Done"
  /\ orgResults.successful # <<>>

\* C20: exit status.  A run that reaches Done exits 0 if and only if no
\* failure was recorded for organizations or users, and 1 if a per-entity
\* failure occurred in either type; a run aborted by an unrecovered error
\* exits 1; a run that has not ended has not exited
ExitStatus ==
  /\ mpc = "Done" =>
       /\ exitCode \in {0, 1}
       /\ exitCode = 0 <=>
            (orgResults.failed = <<>> /\ userResults.failed = <<>>)
  /\ mpc = "Failed" => exitCode = 1
  /\ mpc \notin {"Done", "Failed"} => exitCode = -1

\* a run whose only failure is the deletion of a user exited with 1
ExitStatusWitness ==
  /\ mpc = "Done"
  /\ exitCode = 1
  /\ orgResults.failed = <<>>
  /\ orgResults.successful # <<>>
  /\ userResults.failed # <<>>

\* the last list call of the run is a call of api
LastFetch(api) == request[0].api = api

\* C21: a fetch failure aborts the whole run.  When a list call fails with
\* an error that is not a 429, or with the 429 of its last attempt, the next
\* step of the run is the exit with status 1; nothing happens after it: no
\* later state, no remote call; no delete call was issued when the fetch of
\* the organizations failed and no user delete when the fetch of the users
\* failed
FetchFailureAborts ==
  /\ [][exec[0].pc = "threw" => mpc' = "Failed" /\ exitCode' = 1]_vars
  /\ [][mpc = "Failed" => UNCHANGED vars]_vars
  /\ [](mpc = "Failed" =>
          /\ exitCode = 1
          /\ exec[0].err \in ErrorStatuses
          /\ LastFetch("listOrganizations") =>
               /\ DeleteRequests("deleteOrganization") = {}
               /\ DeleteRequests("deleteUser") = {}
          /\ LastFetch("listUsers") => DeleteRequests("deleteUser") = {})
  /\ [](mpc \in {"FilterOrgs", "FilterUsers", "DeleteOrgs", "DeleteUsers",
                 "Summarize", "Done"} => exec[0].pc # "threw")

\* the fetch of the organizations was rate limited on all its attempts and
\* the run has exited
FetchFailureAbortsWitness ==
  /\ mpc = "Failed"
  /\ LastFetch("listOrganizations")
  /\ outcomes[0] = <<RateLimitStatus, RateLimitStatus, RateLimitStatus>>
  /\ exec[0].err = RateLimitStatus
  /\ exitCode = 1

\* C22 as stated: when an unrecoverable error aborts the run after outcomes
\* were produced, the outcomes are reported before the process terminates
OutcomesReportedOnAbort ==
  (/\ mpc = "Failed"
   /\ Len(orgResults.successful) + Len(orgResults.failed) > 0)
  => \E i \in 1..Len(summary) : summary[i].organizations = orgResults

\* ------------------------------------------------ properties of a start
\* a text of the form YYYY-MM-DD that names a day of the calendar
RealDate(text) == MatchesDateRegex(text) /\ DateParses(text, FALSE)

\* the configuration errors of the arguments and of the credential
ConfigError ==
  \/ env.WORKOS_API_KEY = <<>>
  \/ Len(argv.dates) \notin {1, 2}
  \/ \E i \in 1..Len(argv.dates) : ~RealDate(argv.dates[i])
  \/ /\ Len(argv.dates) = 2
     /\ DateValue(argv.dates[1]) > DateValue(argv.dates[2])

\* the process has not got past its start
NotStarted == mpc \in {"load", "start", "Rejected", "Help"}

\* C23 as stated: configuration errors (missing API credential, malformed
\* date, start date after end date, too many or no date arguments) are fatal
\* before any network activity: the process exits non-zero having issued no
\* remote call
ConfigErrorsFatal ==
  (ConfigError /\ argv.flags \cap {"--help", "-h"} = {}) =>
    /\ NotStarted
    /\ callCount = 0
    /\ mpc # "Help"
    /\ mpc = "Rejected" => exitCode = 1

\* a numeric variable that is set to something that is not a number greater
\* than 0
BadNumber(text) ==
  text # <<>> /\ (parseInt(text).nan \/ parseInt(text).val <= 0)

\* a caller polls for a token that a rate of at most 0 never refills, or the
\* dispatcher awaits the race of an empty queue
WaitsForever ==
  \/ refillRate <= 0 /\ tokens < MilliPerToken
       /\ \E c \in Callers : acq[c] = "waiting"
  \/ dpc = "race" /\ processingQueue = <<>>

\* C24 as stated: a bad numeric option (a requests-per-second value or a
\* concurrency limit that is not a number greater than 0) is fatal at
\* startup, so that the process never reaches a state where acquireToken or
\* the dispatcher waits forever
BadNumericOptionFatal ==
  (BadNumber(env.CONCURRENCY) \/ BadNumber(env.MAX_REQUESTS_PER_SECOND)) =>
    ~WaitsForever

\* ---------------------------------------------- properties of a re-run
\* the lists succeed and every delete call fails with a not-found error
AllGone ==
  /\ behaviour[0] = "ok"
  /\ \A k \in 1..MaxEntities : behaviour[k] = "notfound"

\* every selected entity has a failure with the not-found description
AllNotFound(outs, all) ==
  /\ outs.successful = <<>>
  /\ Ids(outs.failed) = SelectedIds(all)
  /\ Len(outs.failed) = Len(filterByDate(all))
  /\ \A i \in 1..Len(outs.failed) :
       outs.failed[i].error = ErrorMessage(NotFoundStatus)

\* C25: idempotent re-run.  When every selected entity is already deleted, so
\* that every delete call fails with a not-found error, the run does not
\* crash: every entity gets a failure with the not-found description,
\* successful is empty, and the process exits with 1 after the report
IdempotentRerun ==
  (AllGone /\ ~dryRun) =>
    /\ mpc # "Failed"
    /\ dpc # "threw"
    /\ mpc \in {"FetchUsers", "FilterUsers", "DeleteUsers", "Summarize",
                "Done"} => AllNotFound(orgResults, RemoteOrgs)
    /\ usersHandled => AllNotFound(userResults, RemoteUsers)
    /\ mpc = "Done" =>
         /\ Len(summary) = 1
         /\ summary[1].organizations = orgResults
         /\ Len(orgResults.failed) + Len(userResults.failed) > 0 =>
              exitCode = 1

\* a re-run over organizations and users that are all gone has ended with 1
IdempotentRerunWitness ==
  /\ AllGone
  /\ ~dryRun
  /\ mpc = "Done"
  /\ exitCode = 1
  /\ Len(orgResults.failed) >= 2
  /\ usersHandled
  /\ userResults.failed # <<>>

\* ----------------------------------------------- liveness of the limiter
\* C26: rate limiter liveness.  With refillRate > 0, time advancing and fair
\* timer scheduling, every caller of acquireToken is eventually admitted,
\* however many callers are waiting at the same time
AdmissionLive ==
  \A c \in Clients : (acq[c] = "waiting") ~> (acq[c] = "granted")

\* all the clients are waiting for a token at the same time
AdmissionLiveWitness ==
  /\ \A c \in Clients : acq[c] = "waiting"
  /\ tokens < MilliPerToken
  /\ grantCount >= 1

\* ----------------------------------------------- liveness of the deleter
\* C27: deleteEntitiesConcurrently always terminates and never blocks
\* siblings.  With CONCURRENCY_LIMIT >= 1, if every remote call eventually
\* returns (success or any error, a 429 on every attempt included) and tokens
\* are eventually granted, every entity is eventually dispatched and gets an
\* outcome and the call eventually returns, whatever subset of entities fails
DeleteTerminates ==
  (dpc = "loop") ~>
    (/\ dpc = "done"
     /\ next = Len(entities) + 1
     /\ Len(results.successful) + Len(results.failed) = Len(entities))

\* a real deletion returned after one entity was rate limited on all its
\* attempts while another one was deleted
DeleteTerminatesWitness ==
  /\ ~dryRun
  /\ dpc = "done"
  /\ results.successful # <<>>
  /\ \E i \in 1..Len(results.failed) :
       results.failed[i].error = ErrorMessage(RateLimitStatus)

\* ------------------------------------------------------ progress tracker
\* C28: progress tracker consistency.  In a real (non-dry-run) deletion of a
\* non-empty list the tracker is updated once per recorded outcome: its total
\* is the number of entities, completed = successful + failed <= total, and
\* its successful and failed counts are the lengths of the two result lists
ProgressConsistent ==
  (~dryRun /\ dpc # "idle" /\ entities # <<>>) =>
    /\ progress.total = Len(entities)
    /\ progress.completed = progress.successful + progress.failed
    /\ progress.completed <= progress.total
    /\ progress.successful = Len(results.successful)
    /\ progress.failed = Len(results.failed)
    /\ progress.completed = Cardinality(settled)

\* a real deletion in progress recorded one success and one failure
ProgressConsistentWitness ==
  /\ ~dryRun
  /\ dpc \in {"race", "all"}
  /\ progress.successful = 1
  /\ progress.failed = 1
  /\ progress.completed < progress.total

\* ------------------------------------------------------ sequential fetch
\* the list calls that are past the limiter and not yet answered
ListCallsInFlight ==
  {c \in Callers : /\ exec[c].pc = "call"
                   /\ request[c].api \in {"listOrganizations", "listUsers"}}

\* C29: fetch is strictly sequential.  Within a fetch at most one list call is
\* in flight; a call is issued only after the previous one returned, with
\* exactly the cursor that one returned (none for the first call), and what
\* was accumulated is what the calls before it returned
SequentialFetch ==
  /\ Cardinality(ListCallsInFlight) <= 1
  /\ (mpc \in {"FetchOrgs", "FetchUsers"} /\ exec[0].pc # "idle") =>
       /\ request[0].api = IF mpc = "FetchOrgs" THEN "listOrganizations"
                                                ELSE "listUsers"
       /\ request[0].arg = after
       /\ Len(fetched) = after
       /\ after # 0 => after = PageAfter(request[0].api, after - PageSize)

\* the second list call of a fetch is in flight with the cursor of the first
SequentialFetchWitness ==
  /\ mpc = "FetchOrgs"
  /\ exec[0].pc = "call"
  /\ request[0].arg = PageSize
  /\ Len(fetched) = PageSize
  /\ callCount >= 2

\* ------------------------------------------------- first-completion admission
\* the entities of the processing queue in launch order
InLaunchOrder ==
  \A i, j \in 1..Len(processingQueue) :
    i < j => processingQueue[i] < processingQueue[j]

\* C30: first-completion, work-conserving admission.  Tasks are launched in
\* input order, and whenever the dispatcher of a real deletion is suspended
\* in Promise.race with nothing left to run, exactly CONCURRENCY_LIMIT tasks
\* are outstanding: the completion of any one outstanding task, the oldest
\* or not, launches the next entity without waiting for another task
WorkConserving ==
  (~dryRun /\ dpc # "idle") =>
    /\ InFlight \cup settled = 1..(next - 1)
    /\ InLaunchOrder
    /\ (dpc = "race" /\ Quiescent) =>
         /\ Cardinality(InFlight) = CONCURRENCY_LIMIT
         /\ next <= Len(entities)

\* the second task finished before the first one and the third entity was
\* launched in its place
WorkConservingWitness ==
  /\ ~dryRun
  /\ CONCURRENCY_LIMIT = 2
  /\ settled = {2}
  /\ InFlight = {1, 3}
  /\ processingQueue = <<1, 3>>

\* ------------------------------------------------ length of the queue
\* C31: whenever the dispatcher of a real deletion resumes from its
\* Promise.race at the limit, the finally callback of the finished task has
\* already run: the processing queue holds fewer than CONCURRENCY_LIMIT
\* entries when the next task is pushed, and it never holds more than
\* CONCURRENCY_LIMIT entries, although the wait is an if and not a loop
QueueWithinLimit ==
  /\ [](~dryRun =>
          /\ Len(processingQueue) <= CONCURRENCY_LIMIT
          /\ dpc = "launch" => Len(processingQueue) < CONCURRENCY_LIMIT)
  /\ [][(~dryRun /\ Len(processingQueue') > Len(processingQueue)) =>
          /\ Len(processingQueue) < CONCURRENCY_LIMIT
          /\ Len(processingQueue') = Len(processingQueue) + 1]_vars

\* the dispatcher resumed from the race at a limit of two or more: one task
\* finished and left the queue, the others still fill it up to one free slot
QueueWithinLimitWitness ==
  /\ ~dryRun
  /\ dpc = "launch"
  /\ CONCURRENCY_LIMIT >= 2
  /\ settled # {}
  /\ Len(processingQueue) = CONCURRENCY_LIMIT - 1

\* ------------------------------------------------ atomic token decrement
\* the number of grants made at the instant t
GrantsAt(t) ==
  Cardinality({i \in 1..Len(grantTimes) : grantTimes[i] = t})

\* C32: the refill-check-decrement step of acquireToken is atomic with
\* respect to other callers.  Every admission finds at least one whole token
\* after the refill and takes exactly one, so tokens never go negative, and
\* with t tokens after the refill and no time elapsing at most floor(t)
\* callers are admitted: what is left plus what was granted at this instant
\* is what the refill found, at most the capacity
AtomicAdmission ==
  /\ [](/\ tokens >= 0
        /\ lastRefill = now =>
             tokens + MilliPerToken * GrantsAt(now)
               <= capacity * MilliPerToken)
  /\ [][grantCount' # grantCount =>
          /\ grantCount' = grantCount + 1
          /\ Refilled(tokens, lastRefill, now) >= MilliPerToken
          /\ tokens' = Refilled(tokens, lastRefill, now) - MilliPerToken]_vars

\* two callers were admitted at the same instant on the two tokens of the
\* bucket and a third one has to wait
AtomicAdmissionWitness ==
  /\ GrantsAt(now) = 2
  /\ tokens < MilliPerToken
  /\ \E c \in Clients : acq[c] = "waiting"

Listed ==
  IF mpc \in {"FetchOrgs", "FilterOrgs", "DeleteOrgs"} THEN RemoteOrgs
                                                       ELSE RemoteUsers

\* C34: a list page that is rate limited and then succeeds on retry is
\* requested again with the same cursor, so the sequence the fetcher returns
\* is the one it returns when no 429 occurs, the collection in page order: no
\* page skipped, no page duplicated
RetrySamePage ==
  /\ [][(mpc \in {"FetchOrgs", "FetchUsers"}
           /\ exec[0].attempt >= 1
           /\ exec'[0].attempt > exec[0].attempt) =>
          /\ request'[0] = request[0]
          /\ after' = after
          /\ fetched' = fetched]_vars
  /\ [](mpc \in {"FetchOrgs", "FetchUsers"} /\ exec[0].pc = "returned" =>
          /\ request[0].arg = after
          /\ fetched = SubSeq(Listed, 1, after)
          /\ PageData(request[0].api, request[0].arg)
               = SubSeq(Listed, after + 1, Min(after + PageSize, Len(Listed))))
  /\ [](mpc \in {"FilterOrgs", "FilterUsers"} => fetched = Listed)

\* the second page of the organizations was rate limited and then returned
\* on the retry
RetrySamePageWitness ==
  /\ mpc = "FetchOrgs"
  /\ exec[0].pc = "returned"
  /\ outcomes[0] = <<RateLimitStatus, Ok>>
  /\ request[0].arg = PageSize
  /\ Len(fetched) = PageSize

\* ------------------------------------------------ failures and the users
\* C35: with the include-users option set, failed deletions of organizations
\* do not stop the run.  The fetch of the users follows the deletion of the
\* organizations whatever its outcomes; unless a list call of the users fails,
\* the run ends with the users filtered and deleted, the summary printed and
\* the exit status 1
OrgFailuresDoNotStop ==
  /\ [][(mpc = "DeleteOrgs" /\ mpc' # mpc /\ deleteUsersFlag) =>
          mpc' = "FetchUsers"]_vars
  /\ []((deleteUsersFlag /\ orgResults.failed # <<>>) =>
          /\ mpc \in {"FetchUsers", "FilterUsers", "DeleteUsers",
                      "Summarize", "Done", "Failed"}
          /\ mpc = "Failed" =>
               /\ LastFetch("listUsers")
               /\ exec[0].err \in ErrorStatuses
          /\ mpc = "Done" =>
               /\ usersHandled
               /\ [api |-> "listUsers", arg |-> 0] \in remoteLog
               /\ summary = <<[organizations |-> orgResults,
                               users |-> userResults,
                               withUsers |-> TRUE]>>
               /\ exitCode = 1)

\* a run with the option ended after the deletion of an organization failed
\* and every selected user was deleted
OrgFailuresDoNotStopWitness ==
  /\ deleteUsersFlag
  /\ ~dryRun
  /\ mpc = "Done"
  /\ orgResults.failed # <<>>
  /\ usersHandled
  /\ userResults.failed = <<>>
  /\ userResults.successful # <<>>
  /\ exitCode = 1

\* ------------------------------------------------ names of the outcomes
\* C36 as stated: the name of every outcome follows the display-name
\* precedence, and the outcome a dry run gives an entity carries the id, name
\* and createdAt of the success outcome of its real deletion
DryRunOutcomeAsReal ==
  (dryRun /\ dpc = "done") =>
    \A i \in 1..Len(results.successful) :
      results.successful[i]
        = [id |-> entities[i].id,
           name |-> DisplayName(entities[i], entityType),
           createdAt |-> entities[i].createdAt]

\* ------------------------------------------------ progress of a dry run
\* C37 as stated: in a dry run too the progress tracker reaches
\* completed = total with every entity counted as successful
DryRunProgressComplete ==
  (dryRun /\ dpc = "done" /\ entities # <<>>) =>
    /\ progress.total = Len(entities)
    /\ progress.completed = progress.total
    /\ progress.successful = progress.total
    /\ progress.failed = 0

====
